---- MODULE Spec2Model ----
(***************************************************************************)
(* BasicBot (src/bot.py): the symbol-info cache, the quantity / price      *)
(* validators and the order-placing facade of the Binance Futures bot.     *)
(*                                                                         *)
(* Numbers.  Python floats and Decimals are modelled as exact decimals     *)
(* with Digits fractional digits: the integer n stands for n * 10^-Digits. *)
(* D(n, d) writes the decimal n * 10^-d, so D(1234, 1) is 123.4.           *)
(* Decimal's 28-digit context precision and floats of 1e16 and more (whose *)
(* str() is in exponent notation with a positive exponent) lie outside the *)
(* modelled range.                                                         *)
(***************************************************************************)
EXTENDS Integers, Sequences, FiniteSets, TLC

VARIABLES
    exchange,   \* the exchange's metadata: listed symbol -> symbol record
    cache,      \* BasicBot._symbol_info_cache: symbol -> symbol record
    call        \* the facade call that has just run, or [op |-> "idle"]

vars == <<exchange, cache, call>>

(***************************************************************************)
(* Bounds of the model.                                                    *)
(***************************************************************************)
\* fractional decimal digits carried by the modelled numbers
Digits == 4
\* mantissas 0..MaxMant of the values drawn for the validators
MaxMant == 12
\* futures_exchange_info outcomes drawn per facade call
MaxFetch == 3
\* the most raw positions the exchange holds
MaxPositions == 2

(***************************************************************************)
(* Decimal arithmetic.                                                     *)
(***************************************************************************)
RECURSIVE Pow10(_)
Pow10(n) == IF n <= 0 THEN 1 ELSE 10 * Pow10(n - 1)

D(n, d) == n * Pow10(Digits - d)

Abs(x) == IF x < 0 THEN -x ELSE x

\* number of fractional digits of x once trailing zeros are dropped
FracDigits(x) ==
    CHOOSE d \in 0..Digits :
        /\ Abs(x) % Pow10(Digits - d) = 0
        /\ \A e \in 0..(d - 1) : Abs(x) % Pow10(Digits - e) # 0

\* mutant: one fractional digit fewer than the step has
DecimalPlaces_OneShort(step) ==
    IF FracDigits(step) <= 1 THEN 1 ELSE FracDigits(step) - 1

\* -exponent of Decimal(str(step)) for a float step: str() of an integral
\* float is "N.0", one fractional digit; otherwise the shortest repr.
DecimalPlaces(step) ==
    IF FracDigits(step) = 0 THEN 1 ELSE FracDigits(step)

\* mutant: rounds away from zero instead of truncating
Quantize_RoundUp(value, step) ==
    LET q == Pow10(Digits - DecimalPlaces(step))
        m == Abs(value)
        r == ((m + q - 1) \div q) * q
    IN  IF value >= 0 THEN r ELSE -r

\* float(Decimal(str(value)).quantize(Decimal(str(step)), rounding=ROUND_DOWN)):
\* quantize() keeps the digits of value down to the exponent of step and
\* drops the rest (toward zero); it does not divide by step.
Quantize(value, step) ==
    LET q == Pow10(Digits - DecimalPlaces(step))
        m == Abs(value)
        r == (m \div q) * q
    IN  IF value >= 0 THEN r ELSE -r

(***************************************************************************)
(* Symbol metadata as the exchange reports it.                             *)
(***************************************************************************)
LotSize(min, max, step) ==
    [filterType |-> "LOT_SIZE", minQty |-> min, maxQty |-> max, stepSize |-> step]

PriceFilter(min, max, tick) ==
    [filterType |-> "PRICE_FILTER", minPrice |-> min, maxPrice |-> max, tickSize |-> tick]

SymbolRecord(symbol, filters) == [symbol |-> symbol, filters |-> filters]

Listed == {"BTCUSDT", "DOGEUSDT"}
Symbols == Listed \cup {"NOPEUSDT"}

(***************************************************************************)
(* get_symbol_info.  ctx threads the state one facade call touches:        *)
(*   cache   the symbol cache,                                             *)
(*   remote  the remote calls made so far in this facade call,             *)
(*   net     the outcome of the i-th futures_exchange_info of this call    *)
(*           (TRUE: answered, FALSE: BinanceAPIException).                 *)
(***************************************************************************)
ExchangeInfoCall == [api |-> "futures_exchange_info"]

\* An entry of the log of remote calls: the call, and the exception the
\* client raised for it ("" when the client answered).
Logged(c, raised) == [raised |-> raised] @@ c

Answered(remote) == {i \in 1..Len(remote) : remote[i].raised = ""}

Fetches(remote) ==
    Cardinality({i \in 1..Len(remote) : remote[i].api = "futures_exchange_info"})

NoRecord == [symbol |-> "", filters |-> <<>>]

\* the message f"Symbol {symbol} not found", as its parts
NotFound(symbol) == <<"Symbol", symbol, "not found">>

\* mutant: stores nothing after a fetch
get_symbol_info_NoStore(ctx, ex, symbol) ==
    IF symbol \in DOMAIN ctx.cache
    THEN [outcome |-> "return", error |-> <<>>, info |-> ctx.cache[symbol], ctx |-> ctx]
    ELSE LET answered == ctx.net[Fetches(ctx.remote) + 1]
             raised == IF answered THEN "" ELSE "BinanceAPIException"
             fetched == [ctx EXCEPT !.remote = Append(@, Logged(ExchangeInfoCall, raised))]
         IN  IF ~answered
             THEN [outcome |-> raised, error |-> <<raised>>, info |-> NoRecord,
                   ctx |-> fetched]
             ELSE IF symbol \in DOMAIN ex
             THEN [outcome |-> "return", error |-> <<>>, info |-> ex[symbol],
                   ctx |-> fetched]
             ELSE [outcome |-> "ValueError", error |-> NotFound(symbol),
                   info |-> NoRecord, ctx |-> fetched]

\* mutant: a symbol the exchange does not list is cached as an empty record
get_symbol_info_StoresMissing(ctx, ex, symbol) ==
    IF symbol \in DOMAIN ctx.cache
    THEN [outcome |-> "return", error |-> <<>>, info |-> ctx.cache[symbol], ctx |-> ctx]
    ELSE LET answered == ctx.net[Fetches(ctx.remote) + 1]
             raised == IF answered THEN "" ELSE "BinanceAPIException"
             fetched == [ctx EXCEPT !.remote = Append(@, Logged(ExchangeInfoCall, raised))]
         IN  IF ~answered
             THEN [outcome |-> raised, error |-> <<raised>>, info |-> NoRecord,
                   ctx |-> fetched]
             ELSE IF symbol \in DOMAIN ex
             THEN [outcome |-> "return", error |-> <<>>, info |-> ex[symbol],
                   ctx |-> [fetched EXCEPT !.cache = (symbol :> ex[symbol]) @@ @]]
             ELSE [outcome |-> "ValueError", error |-> NotFound(symbol),
                   info |-> NoRecord,
                   ctx |-> [fetched EXCEPT !.cache = (symbol :> NoRecord) @@ @]]

\* mutant: every lookup fetches, and the record fetched replaces the stored one
get_symbol_info_Refresh(ctx, ex, symbol) ==
    LET answered == ctx.net[Fetches(ctx.remote) + 1]
        raised == IF answered THEN "" ELSE "BinanceAPIException"
        fetched == [ctx EXCEPT !.remote = Append(@, Logged(ExchangeInfoCall, raised))]
    IN  IF ~answered
        THEN [outcome |-> raised, error |-> <<raised>>, info |-> NoRecord,
              ctx |-> fetched]
        ELSE IF symbol \in DOMAIN ex
        THEN [outcome |-> "return", error |-> <<>>, info |-> ex[symbol],
              ctx |-> [fetched EXCEPT !.cache =
                          [s \in DOMAIN @ \cup {symbol} |->
                              IF s = symbol THEN ex[symbol] ELSE @[s]]]]
        ELSE [outcome |-> "ValueError", error |-> NotFound(symbol),
              info |-> NoRecord, ctx |-> fetched]

get_symbol_info(ctx, ex, symbol) ==
    IF symbol \in DOMAIN ctx.cache
    THEN [outcome |-> "return", error |-> <<>>, info |-> ctx.cache[symbol], ctx |-> ctx]
    ELSE LET answered == ctx.net[Fetches(ctx.remote) + 1]
             raised == IF answered THEN "" ELSE "BinanceAPIException"
             fetched == [ctx EXCEPT !.remote = Append(@, Logged(ExchangeInfoCall, raised))]
         IN  IF ~answered
             THEN [outcome |-> raised, error |-> <<raised>>, info |-> NoRecord,
                   ctx |-> fetched]
             ELSE IF symbol \in DOMAIN ex
             THEN [outcome |-> "return", error |-> <<>>, info |-> ex[symbol],
                   ctx |-> [fetched EXCEPT !.cache = (symbol :> ex[symbol]) @@ @]]
             ELSE [outcome |-> "ValueError", error |-> NotFound(symbol),
                   info |-> NoRecord, ctx |-> fetched]

(***************************************************************************)
(* _validate_quantity and _validate_price.                                 *)
(***************************************************************************)
Verdict(ok, msg, v) == [is_valid |-> ok, message |-> msg, value |-> v]

\* an exception inside the try block, before the except clause maps it
Raised == [is_valid |-> FALSE, message |-> "raised", value |-> 0]

\* mutant: the bounds checks clamp instead of rejecting
LotSizeVerdict_Clamp(f, quantity) ==
    IF ~({"minQty", "maxQty", "stepSize"} \subseteq DOMAIN f) THEN Raised
    ELSE IF quantity < f.minQty THEN Verdict(FALSE, "Quantity below minimum", f.minQty)
    ELSE IF quantity > f.maxQty THEN Verdict(FALSE, "Quantity above maximum", f.maxQty)
    ELSE Verdict(TRUE, "Valid", Quantize(quantity, f.stepSize))

\* the body run for the LOT_SIZE filter
LotSizeVerdict(f, quantity) ==
    IF ~({"minQty", "maxQty", "stepSize"} \subseteq DOMAIN f) THEN Raised
    ELSE IF quantity < f.minQty THEN Verdict(FALSE, "Quantity below minimum", quantity)
    ELSE IF quantity > f.maxQty THEN Verdict(FALSE, "Quantity above maximum", quantity)
    ELSE Verdict(TRUE, "Valid", Quantize(quantity, f.stepSize))

\* the body run for the PRICE_FILTER filter
PriceFilterVerdict(f, price) ==
    IF ~({"minPrice", "maxPrice", "tickSize"} \subseteq DOMAIN f) THEN Raised
    ELSE IF price < f.minPrice THEN Verdict(FALSE, "Price below minimum", price)
    ELSE IF f.maxPrice > 0 /\ price > f.maxPrice
    THEN Verdict(FALSE, "Price above maximum", price)
    ELSE Verdict(TRUE, "Valid", Quantize(price, f.tickSize))

\* mutant: a symbol without a LOT_SIZE filter has its quantity refused
RECURSIVE ScanLotSize_Refuses(_, _, _)
ScanLotSize_Refuses(filters, i, quantity) ==
    IF i > Len(filters) THEN Verdict(FALSE, "No LOT_SIZE filter found", quantity)
    ELSE IF "filterType" \notin DOMAIN filters[i] THEN Raised
    ELSE IF filters[i].filterType = "LOT_SIZE" THEN LotSizeVerdict(filters[i], quantity)
    ELSE ScanLotSize_Refuses(filters, i + 1, quantity)

\* for filter_item in symbol_info["filters"], from the i-th on
RECURSIVE ScanLotSize(_, _, _)
ScanLotSize(filters, i, quantity) ==
    IF i > Len(filters) THEN Verdict(TRUE, "No LOT_SIZE filter found", quantity)
    ELSE IF "filterType" \notin DOMAIN filters[i] THEN Raised
    ELSE IF filters[i].filterType = "LOT_SIZE" THEN LotSizeVerdict(filters[i], quantity)
    ELSE ScanLotSize(filters, i + 1, quantity)

RECURSIVE ScanPriceFilter(_, _, _)
ScanPriceFilter(filters, i, price) ==
    IF i > Len(filters) THEN Verdict(TRUE, "No PRICE_FILTER found", price)
    ELSE IF "filterType" \notin DOMAIN filters[i] THEN Raised
    ELSE IF filters[i].filterType = "PRICE_FILTER" THEN PriceFilterVerdict(filters[i], price)
    ELSE ScanPriceFilter(filters, i + 1, price)

\* Both return [verdict, lookup, info, ctx]: the (is_valid, message, value)
\* tuple, how the symbol lookup ended, the record it gave, and the context.
\* mutant: an error while the filters are obtained or inspected refuses the
\* quantity
_validate_quantity_Strict(ctx, ex, symbol, quantity) ==
    LET got == get_symbol_info(ctx, ex, symbol)
        v   == IF got.outcome = "return"
               THEN ScanLotSize(got.info.filters, 1, quantity)
               ELSE Raised
    IN  [verdict |-> IF v = Raised
                     THEN Verdict(FALSE, "Validation skipped", quantity)
                     ELSE v,
         lookup |-> got.outcome, info |-> got.info, ctx |-> got.ctx]

_validate_quantity(ctx, ex, symbol, quantity) ==
    LET got == get_symbol_info(ctx, ex, symbol)
        v   == IF got.outcome = "return"
               THEN ScanLotSize(got.info.filters, 1, quantity)
               ELSE Raised
    IN  [verdict |-> IF v = Raised
                     THEN Verdict(TRUE, "Validation skipped", quantity)
                     ELSE v,
         lookup |-> got.outcome, info |-> got.info, ctx |-> got.ctx]

_validate_price(ctx, ex, symbol, price) ==
    LET got == get_symbol_info(ctx, ex, symbol)
        v   == IF got.outcome = "return"
               THEN ScanPriceFilter(got.info.filters, 1, price)
               ELSE Raised
    IN  [verdict |-> IF v = Raised
                     THEN Verdict(TRUE, "Validation skipped", price)
                     ELSE v,
         lookup |-> got.outcome, info |-> got.info, ctx |-> got.ctx]

(***************************************************************************)
(* _format_order_response.  A raw record of the exchange is a function     *)
(* from the keys it has to their values.  The value of a numeric key is a  *)
(* number, Num(n), or a text, Str(s).                                      *)
(***************************************************************************)
Num(n) == [num |-> n]
Str(s) == [str |-> s]

\* the decimal texts of the model and the number float() reads from each
Texts == {"0", "0.00", "-0.5", "1.5", "50000.10"}

float(v) ==
    IF "num" \in DOMAIN v THEN v.num
    ELSE CASE v.str = "0" -> 0
           [] v.str = "0.00" -> 0
           [] v.str = "-0.5" -> -D(5, 1)
           [] v.str = "1.5" -> D(15, 1)
           [] v.str = "50000.10" -> D(500001, 1)

\* float() raises ValueError on any other text, the empty one included
Parses(v) == "num" \in DOMAIN v \/ v.str \in Texts

\* Python truth of a value: a number is true unless 0, a text unless empty
IsTrue(v) == IF "num" \in DOMAIN v THEN v.num # 0 ELSE v.str # ""

\* record.get(key, default)
Get(record, key, default) == IF key \in DOMAIN record THEN record[key] ELSE default

\* record.get(key): None, <<>>, when the key is absent
GetOpt(record, key) == IF key \in DOMAIN record THEN <<record[key]>> ELSE <<>>

NoResponse == <<>>

\* mutant: an absent reduceOnly is reported as True
_format_order_response_OtherDefaults(order) ==
    LET floats == {Get(order, k, Num(0)) :
                      k \in {"price", "origQty", "executedQty", "avgPrice"}}
        stop == GetOpt(order, "stopPrice")
        stops == IF stop # <<>> /\ IsTrue(stop[1]) THEN {stop[1]} ELSE {}
    IN  IF \E v \in floats \cup stops : ~Parses(v)
        THEN [outcome |-> "ValueError", result |-> NoResponse]
        ELSE [outcome |-> "return",
              result |->
                 [order_id |-> GetOpt(order, "orderId"),
                  client_order_id |-> GetOpt(order, "clientOrderId"),
                  symbol |-> GetOpt(order, "symbol"),
                  side |-> GetOpt(order, "side"),
                  type |-> GetOpt(order, "type"),
                  status |-> GetOpt(order, "status"),
                  price |-> float(Get(order, "price", Num(0))),
                  quantity |-> float(Get(order, "origQty", Num(0))),
                  executed_qty |-> float(Get(order, "executedQty", Num(0))),
                  avg_price |-> float(Get(order, "avgPrice", Num(0))),
                  stop_price |-> IF stops = {} THEN <<>> ELSE <<float(stop[1])>>,
                  time_in_force |-> GetOpt(order, "timeInForce"),
                  reduce_only |-> Get(order, "reduceOnly", TRUE),
                  close_position |-> Get(order, "closePosition", FALSE),
                  working_type |-> GetOpt(order, "workingType"),
                  update_time |-> GetOpt(order, "updateTime")]]

\* Returns [outcome, result]: "return" and the formatted record, or the
\* ValueError of a float() whose argument is no number.
_format_order_response(order) ==
    LET floats == {Get(order, k, Num(0)) :
                      k \in {"price", "origQty", "executedQty", "avgPrice"}}
        stop == GetOpt(order, "stopPrice")
        stops == IF stop # <<>> /\ IsTrue(stop[1]) THEN {stop[1]} ELSE {}
    IN  IF \E v \in floats \cup stops : ~Parses(v)
        THEN [outcome |-> "ValueError", result |-> NoResponse]
        ELSE [outcome |-> "return",
              result |->
                 [order_id |-> GetOpt(order, "orderId"),
                  client_order_id |-> GetOpt(order, "clientOrderId"),
                  symbol |-> GetOpt(order, "symbol"),
                  side |-> GetOpt(order, "side"),
                  type |-> GetOpt(order, "type"),
                  status |-> GetOpt(order, "status"),
                  price |-> float(Get(order, "price", Num(0))),
                  quantity |-> float(Get(order, "origQty", Num(0))),
                  executed_qty |-> float(Get(order, "executedQty", Num(0))),
                  avg_price |-> float(Get(order, "avgPrice", Num(0))),
                  stop_price |-> IF stops = {} THEN <<>> ELSE <<float(stop[1])>>,
                  time_in_force |-> GetOpt(order, "timeInForce"),
                  reduce_only |-> Get(order, "reduceOnly", FALSE),
                  close_position |-> Get(order, "closePosition", FALSE),
                  working_type |-> GetOpt(order, "workingType"),
                  update_time |-> GetOpt(order, "updateTime")]]

(***************************************************************************)
(* The order-placing methods.  Each takes the context, the exchange        *)
(* metadata, the symbol, its arguments a and create, the way the exchange  *)
(* answers futures_create_order ("ok" or the exception it raises), and     *)
(* returns [outcome, error, checks, ctx, order, result]:                   *)
(*   outcome  "return" or the exception that leaves the method,            *)
(*   error    the exception's message,                                     *)
(*   checks   the validator calls made, in order,                          *)
(*   order    the raw order record the exchange answered with,             *)
(*   result   <<v>> when the method returns v, <<>> when it raises.        *)
(* An optional argument is <<>> when the caller leaves it out (or passes   *)
(* None) and <<v>> when the caller passes v.                               *)
(***************************************************************************)
\* mutant: the argument the caller passes is not looked at
Default_Ignored(opt, d) == d

Default(opt, d) == IF opt = <<>> THEN d ELSE opt[1]

\* Python truth of an Optional[float]: None and 0.0 are both false
Truthy(opt) == opt # <<>> /\ opt[1] # 0

Check(field, raw, v) ==
    [field |-> field, raw |-> raw, verdict |-> v.verdict, lookup |-> v.lookup,
     info |-> v.info]

NoOrder == [orderId |-> 0, status |-> ""]

RawOrder(request) == [orderId |-> 1, status |-> "NEW"]

\* raise ValueError(msg)
Invalid(ctx, msg, checks) ==
    [outcome |-> "ValueError", error |-> msg, checks |-> checks, ctx |-> ctx,
     order |-> NoOrder, result |-> <<>>]

CreateOrderCall(request) == [api |-> "futures_create_order", request |-> request]

\* mutant: a request the exchange rejects is sent a second time
Submit_Again(ctx, request, create, checks) ==
    LET raised == IF create = "ok" THEN "" ELSE create
        sent == [ctx EXCEPT !.remote = Append(@, Logged(CreateOrderCall(request), raised))]
    IN  IF create = "ok"
        THEN [outcome |-> "return", error |-> "", checks |-> checks, ctx |-> sent,
              order |-> RawOrder(request),
              result |-> <<_format_order_response(RawOrder(request)).result>>]
        ELSE [outcome |-> create, error |-> create, checks |-> checks,
              ctx |-> [sent EXCEPT !.remote =
                          Append(@, Logged(CreateOrderCall(request), raised))],
              order |-> NoOrder, result |-> <<>>]

\* self.client.futures_create_order(**request) inside try / except ... raise
Submit(ctx, request, create, checks) ==
    LET raised == IF create = "ok" THEN "" ELSE create
        sent == [ctx EXCEPT !.remote = Append(@, Logged(CreateOrderCall(request), raised))]
    IN  IF create = "ok"
        THEN [outcome |-> "return", error |-> "", checks |-> checks, ctx |-> sent,
              order |-> RawOrder(request),
              result |-> <<_format_order_response(RawOrder(request)).result>>]
        ELSE [outcome |-> create, error |-> create, checks |-> checks, ctx |-> sent,
              order |-> NoOrder, result |-> <<>>]

\* mutant: the quantity is sent as the caller passed it
place_market_order_RawQuantity(ctx, ex, symbol, a, create) ==
    LET q == _validate_quantity(ctx, ex, symbol, a.quantity)
        checks == <<Check("quantity", a.quantity, q)>>
    IN  IF ~q.verdict.is_valid THEN Invalid(q.ctx, q.verdict.message, checks)
        ELSE Submit(q.ctx,
                    [symbol |-> symbol, side |-> a.side, type |-> "MARKET",
                     quantity |-> a.quantity,
                     reduceOnly |-> Default(a.reduce_only, FALSE)],
                    create, checks)

place_market_order(ctx, ex, symbol, a, create) ==
    LET q == _validate_quantity(ctx, ex, symbol, a.quantity)
        checks == <<Check("quantity", a.quantity, q)>>
    IN  IF ~q.verdict.is_valid THEN Invalid(q.ctx, q.verdict.message, checks)
        ELSE Submit(q.ctx,
                    [symbol |-> symbol, side |-> a.side, type |-> "MARKET",
                     quantity |-> q.verdict.value,
                     reduceOnly |-> Default(a.reduce_only, FALSE)],
                    create, checks)

\* mutant: the price verdict is not looked at
place_limit_order_PriceUnchecked(ctx, ex, symbol, a, create) ==
    LET q == _validate_quantity(ctx, ex, symbol, a.quantity)
        p == _validate_price(q.ctx, ex, symbol, a.price)
        checksQ == <<Check("quantity", a.quantity, q)>>
        checks == Append(checksQ, Check("price", a.price, p))
    IN  IF ~q.verdict.is_valid THEN Invalid(q.ctx, q.verdict.message, checksQ)
        ELSE Submit(p.ctx,
                    [symbol |-> symbol, side |-> a.side, type |-> "LIMIT",
                     quantity |-> q.verdict.value, price |-> p.verdict.value,
                     timeInForce |-> Default(a.time_in_force, "GTC"),
                     reduceOnly |-> Default(a.reduce_only, FALSE)],
                    create, checks)

place_limit_order(ctx, ex, symbol, a, create) ==
    LET q == _validate_quantity(ctx, ex, symbol, a.quantity)
        p == _validate_price(q.ctx, ex, symbol, a.price)
        checksQ == <<Check("quantity", a.quantity, q)>>
        checks == Append(checksQ, Check("price", a.price, p))
    IN  IF ~q.verdict.is_valid THEN Invalid(q.ctx, q.verdict.message, checksQ)
        ELSE IF ~p.verdict.is_valid THEN Invalid(p.ctx, p.verdict.message, checks)
        ELSE Submit(p.ctx,
                    [symbol |-> symbol, side |-> a.side, type |-> "LIMIT",
                     quantity |-> q.verdict.value, price |-> p.verdict.value,
                     timeInForce |-> Default(a.time_in_force, "GTC"),
                     reduceOnly |-> Default(a.reduce_only, FALSE)],
                    create, checks)

\* mutant: the execution price is validated a second time in place of the
\* trigger price
place_stop_limit_order_PriceTwice(ctx, ex, symbol, a, create) ==
    LET q == _validate_quantity(ctx, ex, symbol, a.quantity)
        p == _validate_price(q.ctx, ex, symbol, a.price)
        t == _validate_price(p.ctx, ex, symbol, a.price)
        checksQ == <<Check("quantity", a.quantity, q)>>
        checksP == Append(checksQ, Check("price", a.price, p))
        checks == Append(checksP, Check("stop_price", a.stop_price, t))
    IN  IF ~q.verdict.is_valid THEN Invalid(q.ctx, q.verdict.message, checksQ)
        ELSE IF ~p.verdict.is_valid THEN Invalid(p.ctx, p.verdict.message, checksP)
        ELSE IF ~t.verdict.is_valid THEN Invalid(t.ctx, t.verdict.message, checks)
        ELSE Submit(t.ctx,
                    [symbol |-> symbol, side |-> a.side, type |-> "STOP",
                     quantity |-> q.verdict.value, price |-> p.verdict.value,
                     stopPrice |-> a.stop_price,
                     timeInForce |-> Default(a.time_in_force, "GTC"),
                     reduceOnly |-> Default(a.reduce_only, FALSE)],
                    create, checks)

place_stop_limit_order(ctx, ex, symbol, a, create) ==
    LET q == _validate_quantity(ctx, ex, symbol, a.quantity)
        p == _validate_price(q.ctx, ex, symbol, a.price)
        t == _validate_price(p.ctx, ex, symbol, a.stop_price)
        checksQ == <<Check("quantity", a.quantity, q)>>
        checksP == Append(checksQ, Check("price", a.price, p))
        checks == Append(checksP, Check("stop_price", a.stop_price, t))
    IN  IF ~q.verdict.is_valid THEN Invalid(q.ctx, q.verdict.message, checksQ)
        ELSE IF ~p.verdict.is_valid THEN Invalid(p.ctx, p.verdict.message, checksP)
        ELSE IF ~t.verdict.is_valid THEN Invalid(t.ctx, t.verdict.message, checks)
        ELSE Submit(t.ctx,
                    [symbol |-> symbol, side |-> a.side, type |-> "STOP",
                     quantity |-> q.verdict.value, price |-> p.verdict.value,
                     stopPrice |-> t.verdict.value,
                     timeInForce |-> Default(a.time_in_force, "GTC"),
                     reduceOnly |-> Default(a.reduce_only, FALSE)],
                    create, checks)

\* mutant: the order goes out before the stop price verdict is looked at
place_stop_market_order_LateCheck(ctx, ex, symbol, a, create) ==
    LET q == _validate_quantity(ctx, ex, symbol, a.quantity)
        t == _validate_price(q.ctx, ex, symbol, a.stop_price)
        checksQ == <<Check("quantity", a.quantity, q)>>
        checks == Append(checksQ, Check("stop_price", a.stop_price, t))
        sent == Submit(t.ctx,
                       [symbol |-> symbol, side |-> a.side, type |-> "STOP_MARKET",
                        quantity |-> q.verdict.value, stopPrice |-> t.verdict.value,
                        reduceOnly |-> Default(a.reduce_only, FALSE)],
                       create, checks)
    IN  IF ~q.verdict.is_valid THEN Invalid(q.ctx, q.verdict.message, checksQ)
        ELSE IF ~t.verdict.is_valid THEN Invalid(sent.ctx, t.verdict.message, checks)
        ELSE sent

place_stop_market_order(ctx, ex, symbol, a, create) ==
    LET q == _validate_quantity(ctx, ex, symbol, a.quantity)
        t == _validate_price(q.ctx, ex, symbol, a.stop_price)
        checksQ == <<Check("quantity", a.quantity, q)>>
        checks == Append(checksQ, Check("stop_price", a.stop_price, t))
    IN  IF ~q.verdict.is_valid THEN Invalid(q.ctx, q.verdict.message, checksQ)
        ELSE IF ~t.verdict.is_valid THEN Invalid(t.ctx, t.verdict.message, checks)
        ELSE Submit(t.ctx,
                    [symbol |-> symbol, side |-> a.side, type |-> "STOP_MARKET",
                     quantity |-> q.verdict.value, stopPrice |-> t.verdict.value,
                     reduceOnly |-> Default(a.reduce_only, FALSE)],
                    create, checks)

\* mutant: the market variant carries the GTC time in force as well
place_take_profit_order_AlwaysGTC(ctx, ex, symbol, a, create) ==
    LET q == _validate_quantity(ctx, ex, symbol, a.quantity)
        t == _validate_price(q.ctx, ex, symbol, a.stop_price)
        p == _validate_price(t.ctx, ex, symbol, a.price[1])
        checksQ == <<Check("quantity", a.quantity, q)>>
        checksT == Append(checksQ, Check("stop_price", a.stop_price, t))
        checks == Append(checksT, Check("price", a.price[1], p))
        params == [symbol |-> symbol, side |-> a.side, type |-> "TAKE_PROFIT_MARKET",
                   quantity |-> q.verdict.value, stopPrice |-> t.verdict.value,
                   reduceOnly |-> Default(a.reduce_only, TRUE),
                   timeInForce |-> "GTC"]
    IN  IF ~q.verdict.is_valid THEN Invalid(q.ctx, q.verdict.message, checksQ)
        ELSE IF ~t.verdict.is_valid THEN Invalid(t.ctx, t.verdict.message, checksT)
        ELSE IF ~Truthy(a.price) THEN Submit(t.ctx, params, create, checksT)
        ELSE IF ~p.verdict.is_valid THEN Invalid(p.ctx, p.verdict.message, checks)
        ELSE Submit(p.ctx,
                    [params EXCEPT !.type = "TAKE_PROFIT"]
                        @@ [price |-> p.verdict.value],
                    create, checks)

\* "if price:" takes the limit branch only for a price that is neither None
\* nor zero
place_take_profit_order(ctx, ex, symbol, a, create) ==
    LET q == _validate_quantity(ctx, ex, symbol, a.quantity)
        t == _validate_price(q.ctx, ex, symbol, a.stop_price)
        p == _validate_price(t.ctx, ex, symbol, a.price[1])
        checksQ == <<Check("quantity", a.quantity, q)>>
        checksT == Append(checksQ, Check("stop_price", a.stop_price, t))
        checks == Append(checksT, Check("price", a.price[1], p))
        params == [symbol |-> symbol, side |-> a.side, type |-> "TAKE_PROFIT_MARKET",
                   quantity |-> q.verdict.value, stopPrice |-> t.verdict.value,
                   reduceOnly |-> Default(a.reduce_only, TRUE)]
    IN  IF ~q.verdict.is_valid THEN Invalid(q.ctx, q.verdict.message, checksQ)
        ELSE IF ~t.verdict.is_valid THEN Invalid(t.ctx, t.verdict.message, checksT)
        ELSE IF ~Truthy(a.price) THEN Submit(t.ctx, params, create, checksT)
        ELSE IF ~p.verdict.is_valid THEN Invalid(p.ctx, p.verdict.message, checks)
        ELSE Submit(p.ctx,
                    [params EXCEPT !.type = "TAKE_PROFIT"]
                        @@ [price |-> p.verdict.value, timeInForce |-> "GTC"],
                    create, checks)

(***************************************************************************)
(* set_leverage.  change is the way the exchange answers                   *)
(* futures_change_leverage.                                                *)
(***************************************************************************)
MinLeverage == 1
MaxLeverage == 125

ChangeLeverageCall(symbol, leverage) ==
    [api |-> "futures_change_leverage", symbol |-> symbol, leverage |-> leverage]

\* what the exchange answers to futures_change_leverage
LeverageAnswer(symbol, leverage) ==
    [symbol |-> symbol, leverage |-> leverage, maxNotionalValue |-> "1000000"]

\* mutant: the lower bound is exclusive
set_leverage_Above1(ctx, symbol, leverage, change) ==
    IF leverage <= MinLeverage \/ leverage > MaxLeverage
    THEN Invalid(ctx, "Leverage must be between 1 and 125", <<>>)
    ELSE LET raised == IF change = "ok" THEN "" ELSE change
             sent == [ctx EXCEPT !.remote =
                         Append(@, Logged(ChangeLeverageCall(symbol, leverage), raised))]
         IN  IF change = "ok"
             THEN [outcome |-> "return", error |-> "", checks |-> <<>>, ctx |-> sent,
                   order |-> NoOrder, result |-> <<LeverageAnswer(symbol, leverage)>>]
             ELSE [outcome |-> change, error |-> change, checks |-> <<>>, ctx |-> sent,
                   order |-> NoOrder, result |-> <<>>]

set_leverage(ctx, symbol, leverage, change) ==
    IF leverage < MinLeverage \/ leverage > MaxLeverage
    THEN Invalid(ctx, "Leverage must be between 1 and 125", <<>>)
    ELSE LET raised == IF change = "ok" THEN "" ELSE change
             sent == [ctx EXCEPT !.remote =
                         Append(@, Logged(ChangeLeverageCall(symbol, leverage), raised))]
         IN  IF change = "ok"
             THEN [outcome |-> "return", error |-> "", checks |-> <<>>, ctx |-> sent,
                   order |-> NoOrder, result |-> <<LeverageAnswer(symbol, leverage)>>]
             ELSE [outcome |-> change, error |-> change, checks |-> <<>>, ctx |-> sent,
                   order |-> NoOrder, result |-> <<>>]

(***************************************************************************)
(* The methods that make one remote call inside try / except               *)
(* BinanceAPIException ... raise.  answer is the way the exchange answers  *)
(* the call: "ok" or the exception the client raises.                      *)
(***************************************************************************)
\* mutant: the except clause logs the error and returns an empty result
TryRemote_Swallow(ctx, c, answer, outcome, result) ==
    LET raised == IF answer = "ok" THEN "" ELSE answer
        sent == [ctx EXCEPT !.remote = Append(@, Logged(c, raised))]
    IN  IF answer = "ok"
        THEN [outcome |-> outcome, error |-> IF outcome = "return" THEN "" ELSE outcome,
              checks |-> <<>>, ctx |-> sent, order |-> NoOrder,
              result |-> IF outcome = "return" THEN <<result>> ELSE <<>>]
        ELSE [outcome |-> "return", error |-> "", checks |-> <<>>, ctx |-> sent,
              order |-> NoOrder, result |-> <<<<>>>>]

\* mutant: the remote call is made a second time when it has raised
TryRemote_Again(ctx, c, answer, outcome, result) ==
    LET raised == IF answer = "ok" THEN "" ELSE answer
        sent == [ctx EXCEPT !.remote = Append(@, Logged(c, raised))]
    IN  IF answer = "ok"
        THEN [outcome |-> outcome, error |-> IF outcome = "return" THEN "" ELSE outcome,
              checks |-> <<>>, ctx |-> sent, order |-> NoOrder,
              result |-> IF outcome = "return" THEN <<result>> ELSE <<>>]
        ELSE [outcome |-> answer, error |-> answer, checks |-> <<>>,
              ctx |-> [sent EXCEPT !.remote = Append(@, Logged(c, raised))],
              order |-> NoOrder, result |-> <<>>]

\* c is the remote call; outcome and result are how the rest of the try
\* block ends once the client has answered
TryRemote(ctx, c, answer, outcome, result) ==
    LET raised == IF answer = "ok" THEN "" ELSE answer
        sent == [ctx EXCEPT !.remote = Append(@, Logged(c, raised))]
    IN  IF answer = "ok"
        THEN [outcome |-> outcome, error |-> IF outcome = "return" THEN "" ELSE outcome,
              checks |-> <<>>, ctx |-> sent, order |-> NoOrder,
              result |-> IF outcome = "return" THEN <<result>> ELSE <<>>]
        ELSE [outcome |-> answer, error |-> answer, checks |-> <<>>, ctx |-> sent,
              order |-> NoOrder, result |-> <<>>]

\* what the exchange holds for the account
Account == [totalWalletBalance |-> "1000.00", totalUnrealizedProfit |-> "0.00"]

Balances ==
    <<[asset |-> "BNB", balance |-> Str("0"), availableBalance |-> Str("0")],
      [asset |-> "USDT", balance |-> Str("50000.10"), availableBalance |-> Str("1.5"),
       crossWalletBalance |-> Str("1.5")]>>

Ticker(symbol) == [symbol |-> symbol, price |-> Str("50000.10")]

get_account_info(ctx, answer) ==
    TryRemote(ctx, [api |-> "futures_account"], answer, "return", Account)

\* for balance in balances, from the i-th on
RECURSIVE ScanBalances(_, _, _)
ScanBalances(balances, i, asset) ==
    IF i > Len(balances)
    THEN [asset |-> asset, balance |-> 0, available |-> 0, cross_wallet |-> 0]
    ELSE IF balances[i].asset = asset
    THEN [asset |-> asset, balance |-> float(balances[i].balance),
          available |-> float(balances[i].availableBalance),
          cross_wallet |-> float(Get(balances[i], "crossWalletBalance", Num(0)))]
    ELSE ScanBalances(balances, i + 1, asset)

get_balance(ctx, asset, answer) ==
    TryRemote(ctx, [api |-> "futures_account_balance"], answer, "return",
              ScanBalances(Balances, 1, asset))

get_current_price(ctx, symbol, answer) ==
    TryRemote(ctx, [api |-> "futures_symbol_ticker", symbol |-> symbol], answer,
              "return", float(Ticker(symbol).price))

cancel_order(ctx, symbol, order_id, answer) ==
    TryRemote(ctx, [api |-> "futures_cancel_order", symbol |-> symbol,
                    orderId |-> order_id],
              answer, "return",
              [orderId |-> order_id, symbol |-> symbol, status |-> "CANCELED"])

cancel_all_orders(ctx, symbol, answer) ==
    TryRemote(ctx, [api |-> "futures_cancel_all_open_orders", symbol |-> symbol],
              answer, "return", [code |-> "200", msg |-> "done"])

\* [self._format_order_response(o) for o in orders]
FormatAll(orders) ==
    LET formatted == [i \in 1..Len(orders) |-> _format_order_response(orders[i])]
    IN  IF \E i \in 1..Len(orders) : formatted[i].outcome # "return"
        THEN [outcome |-> "ValueError", result |-> NoResponse]
        ELSE [outcome |-> "return",
              result |-> [i \in 1..Len(orders) |-> formatted[i].result]]

\* orders is what the exchange holds as open orders
get_open_orders(ctx, symbol, orders, answer) ==
    LET asked == symbol # <<>> /\ symbol[1] # ""
        OfSymbol(o) == o.symbol = symbol[1]
        c == IF asked
             THEN [api |-> "futures_get_open_orders", symbol |-> symbol[1]]
             ELSE [api |-> "futures_get_open_orders"]
        got == IF asked THEN SelectSeq(orders, OfSymbol) ELSE orders
        all == FormatAll(got)
    IN  TryRemote(ctx, c, answer, all.outcome, all.result)

\* order is what the exchange holds under this order id
get_order_status(ctx, symbol, order_id, order, answer) ==
    LET formatted == _format_order_response(order)
    IN  TryRemote(ctx, [api |-> "futures_get_order", symbol |-> symbol,
                        orderId |-> order_id],
                  answer, formatted.outcome, formatted.result)

(***************************************************************************)
(* get_positions.  positions is what the exchange holds, one raw record a  *)
(* symbol and position side.                                               *)
(***************************************************************************)
\* int() of the texts the exchange sends as leverage
int(s) == CASE s = "1" -> 1 [] s = "20" -> 20

ActivePosition(pos) ==
    [symbol |-> pos.symbol,
     position_amount |-> float(pos.positionAmt),
     entry_price |-> float(pos.entryPrice),
     mark_price |-> float(pos.markPrice),
     unrealized_pnl |-> float(pos.unRealizedProfit),
     liquidation_price |-> float(pos.liquidationPrice),
     leverage |-> int(pos.leverage),
     margin_type |-> pos.marginType,
     position_side |-> pos.positionSide]

\* mutant: the test looks at the sign, which drops the short positions
RECURSIVE ActivePositions_LongOnly(_, _)
ActivePositions_LongOnly(positions, i) ==
    IF i > Len(positions) THEN <<>>
    ELSE IF float(positions[i].positionAmt) > 0
    THEN <<ActivePosition(positions[i])>> \o ActivePositions_LongOnly(positions, i + 1)
    ELSE ActivePositions_LongOnly(positions, i + 1)

\* for pos in positions, from the i-th on
RECURSIVE ActivePositions(_, _)
ActivePositions(positions, i) ==
    IF i > Len(positions) THEN <<>>
    ELSE IF float(positions[i].positionAmt) # 0
    THEN <<ActivePosition(positions[i])>> \o ActivePositions(positions, i + 1)
    ELSE ActivePositions(positions, i + 1)

get_positions(ctx, symbol, positions, answer) ==
    LET OfSymbol(p) == p.symbol = symbol[1]
        kept == IF symbol # <<>> /\ symbol[1] # ""
                THEN SelectSeq(positions, OfSymbol)
                ELSE positions
    IN  TryRemote(ctx, [api |-> "futures_position_information"], answer, "return",
                  ActivePositions(kept, 1))

(***************************************************************************)
(* Calls of the two validators on their own.                               *)
(***************************************************************************)
Idle == [op |-> "idle"]

Ctx(net) == [cache |-> cache, remote |-> <<>>, net |-> net]

\* the exchange fails the first k metadata fetches of a call and answers the rest
Nets == {[i \in 1..MaxFetch |-> i > k] : k \in 0..MaxFetch}

ValidatorCall(op, symbol, raw, r) ==
    [op |-> op, symbol |-> symbol, raw |-> raw, verdict |-> r.verdict,
     lookup |-> r.lookup, info |-> r.info, remote |-> r.ctx.remote]

ValidateQuantity(symbol, quantity, net) ==
    /\ call = Idle
    /\ LET r == _validate_quantity(Ctx(net), exchange, symbol, quantity)
       IN  /\ cache' = r.ctx.cache
           /\ call' = ValidatorCall("_validate_quantity", symbol, quantity, r)
    /\ UNCHANGED exchange

ValidatePrice(symbol, price, net) ==
    /\ call = Idle
    /\ LET r == _validate_price(Ctx(net), exchange, symbol, price)
       IN  /\ cache' = r.ctx.cache
           /\ call' = ValidatorCall("_validate_price", symbol, price, r)
    /\ UNCHANGED exchange

\* the caller takes the result; the bot is ready for the next call
Return ==
    /\ call # Idle
    /\ call' = Idle
    /\ UNCHANGED <<exchange, cache>>

(***************************************************************************)
(* SpecValidate: the validators over a grid of filters and values.         *)
(***************************************************************************)
Mantissas == {1, 5, 25}
StepGrid == {m * Pow10(j) : m \in Mantissas, j \in 0..Digits} \cup {0}
MinGrid == {0, D(2, 0)}
MaxGrid == {0, D(5, 0)}

\* the filters of the two worked examples: lot size 0.001 / 1000 / 0.001
\* and price filter 100 / 0 / 0.1
ExampleRules == {<<D(1, 3), D(1000, 0), D(1, 3)>>, <<D(100, 0), 0, D(1, 1)>>}

\* a filter whose minimum is no multiple of its step (the exchange counts
\* the steps from the minimum): 0.0015 / 5 / 0.001
OffGridRules == {<<D(15, 4), D(5, 0), D(1, 3)>>}

Rules == (MinGrid \X MaxGrid \X StepGrid) \cup ExampleRules \cup OffGridRules

ValueGrid ==
    {m * Pow10(j) : m \in 0..MaxMant, j \in 0..Digits}
        \cup {D(19, 4), D(123456, 3), D(1234, 1), -D(5, 1)}

RuleRecord(symbol, r) ==
    SymbolRecord(symbol, <<LotSize(r[1], r[2], r[3]), PriceFilter(r[1], r[2], r[3])>>)

\* symbol records that omit a filter type: no filter at all, only one of
\* the two, and filters of other types only
SparseFilters ==
    {<<>>,
     <<LotSize(D(2, 0), D(5, 0), D(1, 0))>>,
     <<PriceFilter(D(2, 0), D(5, 0), D(1, 0))>>,
     <<[filterType |-> "MARKET_LOT_SIZE", minQty |-> D(2, 0), maxQty |-> D(5, 0),
        stepSize |-> D(1, 0)],
       [filterType |-> "PERCENT_PRICE"]>>}

InitValidate ==
    /\ \/ \E r \in Rules : exchange = [s \in Listed |-> RuleRecord(s, r)]
       \/ \E fs \in SparseFilters : exchange = [s \in Listed |-> SymbolRecord(s, fs)]
    /\ cache = <<>>
    /\ call = Idle

NextValidate ==
    \/ /\ call = Idle
       /\ \E s \in Symbols, v \in ValueGrid, answered \in BOOLEAN :
              ValidateQuantity(s, v, [i \in 1..MaxFetch |-> answered])
    \/ /\ call = Idle
       /\ \E s \in Symbols, v \in ValueGrid, answered \in BOOLEAN :
              ValidatePrice(s, v, [i \in 1..MaxFetch |-> answered])
    \/ Return

SpecValidate == InitValidate /\ [][NextValidate]_vars

(***************************************************************************)
(* Spec: one BasicBot, called by one caller, one call at a time.           *)
(***************************************************************************)
PlaceOps ==
    {"place_market_order", "place_limit_order", "place_stop_limit_order",
     "place_stop_market_order", "place_take_profit_order"}

FacadeCall(op, symbol, a, r) ==
    [op |-> op, symbol |-> symbol, args |-> a, cached |-> symbol \in DOMAIN cache,
     outcome |-> r.outcome, error |-> r.error, checks |-> r.checks,
     remote |-> r.ctx.remote, order |-> r.order, result |-> r.result]

PlaceMarketOrder(symbol, a, net, create) ==
    /\ call = Idle
    /\ LET r == place_market_order(Ctx(net), exchange, symbol, a, create)
       IN  /\ cache' = r.ctx.cache
           /\ call' = FacadeCall("place_market_order", symbol, a, r)
    /\ UNCHANGED exchange

PlaceLimitOrder(symbol, a, net, create) ==
    /\ call = Idle
    /\ LET r == place_limit_order(Ctx(net), exchange, symbol, a, create)
       IN  /\ cache' = r.ctx.cache
           /\ call' = FacadeCall("place_limit_order", symbol, a, r)
    /\ UNCHANGED exchange

PlaceStopLimitOrder(symbol, a, net, create) ==
    /\ call = Idle
    /\ LET r == place_stop_limit_order(Ctx(net), exchange, symbol, a, create)
       IN  /\ cache' = r.ctx.cache
           /\ call' = FacadeCall("place_stop_limit_order", symbol, a, r)
    /\ UNCHANGED exchange

PlaceStopMarketOrder(symbol, a, net, create) ==
    /\ call = Idle
    /\ LET r == place_stop_market_order(Ctx(net), exchange, symbol, a, create)
       IN  /\ cache' = r.ctx.cache
           /\ call' = FacadeCall("place_stop_market_order", symbol, a, r)
    /\ UNCHANGED exchange

PlaceTakeProfitOrder(symbol, a, net, create) ==
    /\ call = Idle
    /\ LET r == place_take_profit_order(Ctx(net), exchange, symbol, a, create)
       IN  /\ cache' = r.ctx.cache
           /\ call' = FacadeCall("place_take_profit_order", symbol, a, r)
    /\ UNCHANGED exchange

SetLeverage(symbol, leverage, change) ==
    /\ call = Idle
    /\ LET r == set_leverage(Ctx([i \in 1..MaxFetch |-> TRUE]), symbol, leverage, change)
       IN  call' = FacadeCall("set_leverage", symbol, [leverage |-> leverage], r)
    /\ UNCHANGED <<exchange, cache>>

GetSymbolInfo(symbol, net) ==
    /\ call = Idle
    /\ LET r == get_symbol_info(Ctx(net), exchange, symbol)
       IN  /\ cache' = r.ctx.cache
           /\ call' = [op |-> "get_symbol_info", symbol |-> symbol,
                       cached |-> symbol \in DOMAIN cache, outcome |-> r.outcome,
                       error |-> r.error, info |-> r.info, remote |-> r.ctx.remote]
    /\ UNCHANGED exchange

\* The methods that leave the cache alone.  r is what the method gave.
Respond(op, symbol, a, r) ==
    /\ call = Idle
    /\ call' = FacadeCall(op, symbol, a, r)
    /\ UNCHANGED <<exchange, cache>>

NoNet == [i \in 1..MaxFetch |-> TRUE]

GetAccountInfo(answer) ==
    Respond("get_account_info", "", <<>>, get_account_info(Ctx(NoNet), answer))

GetBalance(asset, answer) ==
    Respond("get_balance", "", [asset |-> asset],
            get_balance(Ctx(NoNet), asset, answer))

GetCurrentPrice(symbol, answer) ==
    Respond("get_current_price", symbol, <<>>,
            get_current_price(Ctx(NoNet), symbol, answer))

CancelOrder(symbol, order_id, answer) ==
    Respond("cancel_order", symbol, [order_id |-> order_id],
            cancel_order(Ctx(NoNet), symbol, order_id, answer))

CancelAllOrders(symbol, answer) ==
    Respond("cancel_all_orders", symbol, <<>>,
            cancel_all_orders(Ctx(NoNet), symbol, answer))

GetOpenOrders(symbol, orders, answer) ==
    Respond("get_open_orders", "", [symbol |-> symbol, orders |-> orders],
            get_open_orders(Ctx(NoNet), symbol, orders, answer))

GetOrderStatus(symbol, order_id, order, answer) ==
    Respond("get_order_status", symbol, [order_id |-> order_id, order |-> order],
            get_order_status(Ctx(NoNet), symbol, order_id, order, answer))

GetPositions(symbol, positions, answer) ==
    Respond("get_positions", "", [symbol |-> symbol, positions |-> positions],
            get_positions(Ctx(NoNet), symbol, positions, answer))

\* filters with decimal steps: lot size 0.001 / 10 / 0.001, price 1 / 500 / 0.1
DecimalFilters ==
    <<PriceFilter(D(1, 0), D(500, 0), D(1, 1)), LotSize(D(1, 3), D(10, 0), D(1, 3))>>

\* filters as symbols traded in whole units have them: lot size 1 / 10 / 1,
\* price 0.5 / unbounded / 0.5
CoarseFilters ==
    <<PriceFilter(D(5, 1), 0, D(5, 1)), LotSize(D(1, 0), D(10, 0), D(1, 0))>>

\* a record with no PRICE_FILTER and a LOT_SIZE that lacks its stepSize
BareFilters ==
    <<[filterType |-> "MARKET_LOT_SIZE", minQty |-> D(1, 3), maxQty |-> D(10, 0),
       stepSize |-> D(1, 3)],
      [filterType |-> "LOT_SIZE", minQty |-> D(1, 3), maxQty |-> D(10, 0)]>>

FilterVersions(symbol) ==
    IF symbol = "BTCUSDT" THEN {DecimalFilters, BareFilters}
    ELSE {CoarseFilters, BareFilters}

\* the exchange changes the trading rules of a listed symbol (between calls:
\* a facade call is one step)
ExchangeUpdate(symbol, filters) ==
    /\ call = Idle
    /\ exchange[symbol].filters # filters
    /\ exchange' = [exchange EXCEPT ![symbol] = SymbolRecord(symbol, filters)]
    /\ UNCHANGED <<cache, call>>

Quantities == {D(19, 4), D(25, 1), D(20, 0)}
Prices == {D(2, 1), D(123456, 3), D(600, 0)}
OptionalPrices == {<<>>, <<0>>} \cup {<<p>> : p \in Prices}
Leverages == {0, MinLeverage, 20, MaxLeverage, MaxLeverage + 1}
CreateOutcomes == {"ok", "BinanceAPIException", "BinanceOrderException"}
ChangeOutcomes == {"ok", "BinanceAPIException"}

RemoteOutcomes == {"ok", "BinanceAPIException", "ConnectionError"}
Assets == {"USDT", "BTC"}
OrderIds == {7}
OptionalSymbols == {<<>>} \cup {<<s>> : s \in Symbols}

\* orders as the exchange holds them: a stop order, a limit order (whose
\* stopPrice the exchange sends as "0"), and a record with an empty price
StopOrder ==
    [orderId |-> 7, symbol |-> "BTCUSDT", side |-> "SELL", type |-> "STOP_MARKET",
     status |-> "NEW", price |-> Str("0"), origQty |-> Str("1.5"),
     executedQty |-> Str("0"), avgPrice |-> Str("0.00"),
     stopPrice |-> Str("50000.10"), reduceOnly |-> TRUE]

LimitOrder ==
    [orderId |-> 8, symbol |-> "DOGEUSDT", side |-> "BUY", type |-> "LIMIT",
     status |-> "NEW", price |-> Str("1.5"), origQty |-> Str("1.5"),
     executedQty |-> Str("0"), avgPrice |-> Str("0.00"), stopPrice |-> Str("0"),
     timeInForce |-> "GTC", reduceOnly |-> FALSE]

BrokenOrder == [orderId |-> 9, symbol |-> "DOGEUSDT", price |-> Str("")]

OrderLists ==
    {<<>>, <<StopOrder>>, <<LimitOrder, StopOrder>>, <<StopOrder, BrokenOrder>>}

\* positions as the exchange holds them
PositionAmounts == {"0", "0.00", "-0.5", "1.5"}

RawPosition(symbol, amount) ==
    [symbol |-> symbol, positionAmt |-> Str(amount), entryPrice |-> Str("50000.10"),
     markPrice |-> Str("50000.10"), unRealizedProfit |-> Str("1.5"),
     liquidationPrice |-> Str("0"), leverage |-> "20", marginType |-> "cross",
     positionSide |-> "BOTH"]

RawPositions == {RawPosition(s, amount) : s \in Listed, amount \in PositionAmounts}

PositionLists == UNION {[1..n -> RawPositions] : n \in 0..MaxPositions}

\* side, reduce_only and time_in_force as callers pass them
Flavours ==
    {[side |-> "BUY", reduce_only |-> <<>>, time_in_force |-> <<>>],
     [side |-> "SELL", reduce_only |-> <<TRUE>>, time_in_force |-> <<"IOC">>],
     [side |-> "BUY", reduce_only |-> <<FALSE>>, time_in_force |-> <<"GTC">>]}

MarketArgs ==
    {[side |-> f.side, quantity |-> q, reduce_only |-> f.reduce_only] :
        f \in Flavours, q \in Quantities}

LimitArgs ==
    {[side |-> f.side, quantity |-> q, price |-> p,
      time_in_force |-> f.time_in_force, reduce_only |-> f.reduce_only] :
        f \in Flavours, q \in Quantities, p \in Prices}

StopLimitArgs ==
    {[side |-> f.side, quantity |-> q, price |-> p, stop_price |-> t,
      time_in_force |-> f.time_in_force, reduce_only |-> f.reduce_only] :
        f \in Flavours, q \in Quantities, p \in Prices, t \in Prices}

StopMarketArgs ==
    {[side |-> f.side, quantity |-> q, stop_price |-> t,
      reduce_only |-> f.reduce_only] :
        f \in Flavours, q \in Quantities, t \in Prices}

TakeProfitArgs ==
    {[side |-> f.side, quantity |-> q, stop_price |-> t, price |-> p,
      reduce_only |-> f.reduce_only] :
        f \in Flavours, q \in Quantities, t \in Prices, p \in OptionalPrices}

Init ==
    /\ exchange = [s \in Listed |->
                      SymbolRecord(s, IF s = "BTCUSDT" THEN DecimalFilters
                                      ELSE CoarseFilters)]
    /\ cache = <<>>
    /\ call = Idle

\* A call starts only while no call is running; the guard stands before the
\* quantifiers so that the arguments are not enumerated in other states.
Next ==
    \/ /\ call = Idle
       /\ \E s \in Symbols, a \in MarketArgs, net \in Nets, c \in CreateOutcomes :
              PlaceMarketOrder(s, a, net, c)
    \/ /\ call = Idle
       /\ \E s \in Symbols, a \in LimitArgs, net \in Nets, c \in CreateOutcomes :
              PlaceLimitOrder(s, a, net, c)
    \/ /\ call = Idle
       /\ \E s \in Symbols, a \in StopLimitArgs, net \in Nets, c \in CreateOutcomes :
              PlaceStopLimitOrder(s, a, net, c)
    \/ /\ call = Idle
       /\ \E s \in Symbols, a \in StopMarketArgs, net \in Nets, c \in CreateOutcomes :
              PlaceStopMarketOrder(s, a, net, c)
    \/ /\ call = Idle
       /\ \E s \in Symbols, a \in TakeProfitArgs, net \in Nets, c \in CreateOutcomes :
              PlaceTakeProfitOrder(s, a, net, c)
    \/ /\ call = Idle
       /\ \E s \in Symbols, l \in Leverages, c \in ChangeOutcomes : SetLeverage(s, l, c)
    \/ /\ call = Idle
       /\ \E s \in Symbols, net \in Nets : GetSymbolInfo(s, net)
    \/ /\ call = Idle
       /\ \E c \in RemoteOutcomes : GetAccountInfo(c)
    \/ /\ call = Idle
       /\ \E asset \in Assets, c \in RemoteOutcomes : GetBalance(asset, c)
    \/ /\ call = Idle
       /\ \E s \in Symbols, c \in RemoteOutcomes : GetCurrentPrice(s, c)
    \/ /\ call = Idle
       /\ \E s \in Symbols, id \in OrderIds, c \in RemoteOutcomes : CancelOrder(s, id, c)
    \/ /\ call = Idle
       /\ \E s \in Symbols, c \in RemoteOutcomes : CancelAllOrders(s, c)
    \/ /\ call = Idle
       /\ \E s \in OptionalSymbols, os \in OrderLists, c \in RemoteOutcomes :
              GetOpenOrders(s, os, c)
    \/ /\ call = Idle
       /\ \E s \in Symbols, id \in OrderIds, o \in {StopOrder, LimitOrder, BrokenOrder},
             c \in RemoteOutcomes :
              GetOrderStatus(s, id, o, c)
    \/ /\ call = Idle
       /\ \E s \in OptionalSymbols, ps \in PositionLists, c \in RemoteOutcomes :
              GetPositions(s, ps, c)
    \/ \E s \in Listed : \E fs \in FilterVersions(s) : ExchangeUpdate(s, fs)
    \/ Return

Spec == Init /\ [][Next]_vars

(***************************************************************************)
(* SpecFormat: _format_order_response over raw records with any of their   *)
(* numeric keys and flags absent, and the numeric values in the forms the  *)
(* exchange sends them.                                                    *)
(***************************************************************************)
FormatOrderResponse(order) ==
    /\ call = Idle
    /\ LET r == _format_order_response(order)
       IN  call' = [op |-> "_format_order_response", order |-> order,
                    outcome |-> r.outcome, result |-> r.result]
    /\ UNCHANGED <<exchange, cache>>

\* the records that do or do not have key, with a value from values
With(key, values) == {<<>>} \cup {key :> v : v \in values}

PriceValues == {Num(0), Num(D(15, 1)), Str("0"), Str("0.00"), Str("1.5"), Str("")}
StopPriceValues == PriceValues \cup {Str("50000.10")}
AmountValues == {Num(0), Str("1.5")}

RawOrders ==
    {[orderId |-> 7, symbol |-> "BTCUSDT", status |-> "NEW"]
        @@ p @@ q @@ e @@ a @@ t @@ r @@ c :
        p \in With("price", PriceValues), q \in With("origQty", AmountValues),
        e \in With("executedQty", AmountValues), a \in With("avgPrice", AmountValues),
        t \in With("stopPrice", StopPriceValues), r \in With("reduceOnly", BOOLEAN),
        c \in With("closePosition", BOOLEAN)}

NextFormat ==
    \/ /\ call = Idle
       /\ \E order \in RawOrders : FormatOrderResponse(order)
    \/ Return

SpecFormat == Init /\ [][NextFormat]_vars

(***************************************************************************)
(* SpecRace: two callers run get_symbol_info for the same symbol on one    *)
(* BasicBot at the same time.  A caller takes three steps: the membership  *)
(* test, the futures_exchange_info call with the scan of its answer, and   *)
(* the store with the return.  call holds the two callers:                 *)
(*   pc       "check", "fetch", "store" or "done",                         *)
(*   missed   the membership test found no entry,                          *)
(*   fetched  the record found in the answer of the exchange,              *)
(*   outcome  "return" or the exception, once the caller is done,          *)
(*   info     the record returned,                                         *)
(* with the order in which they stored and whether the exchange changed    *)
(* the symbol's metadata while they ran.                                   *)
(***************************************************************************)
Callers == {1, 2}

Caller(pc, missed, fetched, outcome, info) ==
    [pc |-> pc, missed |-> missed, fetched |-> fetched, outcome |-> outcome,
     info |-> info]

IsRace == call.op = "get_symbol_info x 2"

\* mutant: an entry that is there already is kept
StoreEntry_KeepFirst(c, symbol, record) ==
    IF symbol \in DOMAIN c THEN c ELSE (symbol :> record) @@ c

\* self._symbol_info_cache[symbol] = s
StoreEntry(c, symbol, record) ==
    [s \in DOMAIN c \cup {symbol} |-> IF s = symbol THEN record ELSE c[s]]

StartLookups(symbol) ==
    /\ call = Idle
    /\ call' = [op |-> "get_symbol_info x 2", symbol |-> symbol,
                callers |-> [t \in Callers |->
                                Caller("check", FALSE, NoRecord, "", NoRecord)],
                stored |-> <<>>, changed |-> FALSE]
    /\ UNCHANGED <<exchange, cache>>

\* if symbol in self._symbol_info_cache: return self._symbol_info_cache[symbol]
CheckCache(t) ==
    /\ IsRace
    /\ call.callers[t].pc = "check"
    /\ call' = [call EXCEPT !.callers[t] =
                   IF call.symbol \in DOMAIN cache
                   THEN Caller("done", FALSE, NoRecord, "return", cache[call.symbol])
                   ELSE Caller("fetch", TRUE, NoRecord, "", NoRecord)]
    /\ UNCHANGED <<exchange, cache>>

\* exchange_info = self.client.futures_exchange_info() and the scan of it
FetchExchangeInfo(t, answered) ==
    /\ IsRace
    /\ call.callers[t].pc = "fetch"
    /\ call' = [call EXCEPT !.callers[t] =
                   IF ~answered
                   THEN Caller("done", TRUE, NoRecord, "BinanceAPIException", NoRecord)
                   ELSE IF call.symbol \in DOMAIN exchange
                   THEN Caller("store", TRUE, exchange[call.symbol], "", NoRecord)
                   ELSE Caller("done", TRUE, NoRecord, "ValueError", NoRecord)]
    /\ UNCHANGED <<exchange, cache>>

\* self._symbol_info_cache[symbol] = s; return s
StoreAndReturn(t) ==
    /\ IsRace
    /\ call.callers[t].pc = "store"
    /\ cache' = StoreEntry(cache, call.symbol, call.callers[t].fetched)
    /\ call' = [call EXCEPT !.callers[t] =
                               Caller("done", TRUE, @.fetched, "return", @.fetched),
                            !.stored = Append(@, t)]
    /\ UNCHANGED exchange

\* the exchange changes the trading rules of the symbol while the callers run
ExchangeUpdateMeanwhile(filters) ==
    /\ IsRace
    /\ call.symbol \in DOMAIN exchange
    /\ \E t \in Callers : call.callers[t].pc # "done"
    /\ exchange[call.symbol].filters # filters
    /\ exchange' = [exchange EXCEPT ![call.symbol] = SymbolRecord(call.symbol, filters)]
    /\ call' = [call EXCEPT !.changed = TRUE]
    /\ UNCHANGED cache

\* both callers have their results
BothReturn ==
    /\ IsRace
    /\ \A t \in Callers : call.callers[t].pc = "done"
    /\ call' = Idle
    /\ UNCHANGED <<exchange, cache>>

NextRace ==
    \/ \E s \in Symbols : StartLookups(s)
    \/ \E t \in Callers : CheckCache(t)
    \/ \E t \in Callers, answered \in BOOLEAN : FetchExchangeInfo(t, answered)
    \/ \E t \in Callers : StoreAndReturn(t)
    \/ /\ IsRace
       /\ \E fs \in FilterVersions(call.symbol) : ExchangeUpdateMeanwhile(fs)
    \/ BothReturn

SpecRace == Init /\ [][NextRace]_vars

(***************************************************************************)
(* The interactive menu (src/cli.py).  A handler reads its inputs, asks    *)
(* the user to confirm and calls its BasicBot method inside try/except.    *)
(* call holds the handler that runs: the answers typed at its yes/no       *)
(* questions and the BasicBot methods it has called so far.  run() leaves  *)
(* the program when initialize_bot fails, so a handler chosen from the     *)
(* menu never finds self.bot missing.                                      *)
(***************************************************************************)
MaxPrompts == 2

Handlers ==
    {"market", "limit", "stop_limit", "stop_market", "take_profit",
     "cancel_order", "cancel_all_orders"}

OrderHandlers == Handlers \ {"cancel_order", "cancel_all_orders"}

\* The method a handler calls once the user has confirmed.
BotMethod(handler) ==
    CASE handler = "market" -> "place_market_order"
      [] handler = "limit" -> "place_limit_order"
      [] handler = "stop_limit" -> "place_stop_limit_order"
      [] handler = "stop_market" -> "place_stop_market_order"
      [] handler = "take_profit" -> "place_take_profit_order"
      [] handler = "cancel_order" -> "cancel_order"
      [] handler = "cancel_all_orders" -> "cancel_all_orders"

\* These handlers show the current price before they ask for a price.
ShowsPrice(handler) ==
    handler \in {"limit", "stop_limit", "stop_market", "take_profit"}

\* What the user may type at a question.
Typed == {"", "  ", "y", " y ", "YES", "n", "No", "ok"}

strip ==
    [t \in Typed |-> CASE t = "  " -> ""
                       [] t = " y " -> "y"
                       [] OTHER -> t]

lower ==
    [t \in {strip[u] : u \in Typed} |->
        CASE t = "YES" -> "yes"
          [] t = "No" -> "no"
          [] OTHER -> t]

\* One turn of get_input's loop: <<v>> is returned, <<>> asks again.
get_input(typed, default, required) ==
    LET value == strip[typed] IN
    IF value = "" /\ default # <<>> THEN default
    ELSE IF value = "" /\ required THEN <<>>
    ELSE <<value>>

get_yes_no_input_DefaultYes(typed, default) ==
    LET value == get_input(typed, <<>>, FALSE)[1] IN
    IF value = "" THEN <<TRUE>>
    ELSE IF lower[value] \in {"y", "yes"} THEN <<TRUE>>
    ELSE IF lower[value] \in {"n", "no"} THEN <<FALSE>>
    ELSE <<>>

\* One turn of get_yes_no_input's loop: <<b>> is returned, <<>> asks again.
get_yes_no_input(typed, default) ==
    LET value == get_input(typed, <<>>, FALSE)[1] IN
    IF value = "" THEN <<default>>
    ELSE IF lower[value] \in {"y", "yes"} THEN <<TRUE>>
    ELSE IF lower[value] \in {"n", "no"} THEN <<FALSE>>
    ELSE <<>>

IsMenu == call.op = "menu"

BotCall(method, raised) == [method |-> method, raised |-> raised]

\* The user picks an order or cancel handler; it reads symbol, side and
\* numbers (after showing the price where it does so, whose failure is
\* passed over) and arrives at its first yes/no question.
Select(handler, raised) ==
    /\ call = Idle
    /\ call' = [op |-> "menu", handler |-> handler,
                pc |-> IF handler \in OrderHandlers THEN "option"
                       ELSE "confirm",
                option |-> <<>>, confirm |-> <<>>,
                called |-> IF ShowsPrice(handler)
                           THEN <<BotCall("get_current_price", raised)>>
                           ELSE <<>>]
    /\ UNCHANGED <<exchange, cache>>

\* "Reduce Only?" / "Use limit price?", default no; asked again until the
\* answer is understood.
AnswerOption(typed) ==
    /\ IsMenu
    /\ call.pc = "option"
    /\ LET answer == get_yes_no_input(typed, FALSE) IN
       /\ answer # <<>> \/ Len(call.option) + 1 < MaxPrompts
       /\ call' = [call EXCEPT !.option = Append(@, typed),
                               !.pc = IF answer = <<>> THEN "option"
                                      ELSE "confirm"]
    /\ UNCHANGED <<exchange, cache>>

\* "Confirm order?" / "Cancel order N?" / "Cancel ALL orders for S?": on no
\* the handler returns, on yes it calls its method, whose exception it
\* prints.
AnswerConfirm(typed, raised) ==
    /\ IsMenu
    /\ call.pc = "confirm"
    /\ LET answer == get_yes_no_input(typed, FALSE) IN
       /\ answer # <<>> \/ Len(call.confirm) + 1 < MaxPrompts
       /\ call' = [call EXCEPT
                      !.confirm = Append(@, typed),
                      !.pc = IF answer = <<>> THEN "confirm" ELSE "done",
                      !.called = IF answer = <<TRUE>>
                                 THEN Append(@, BotCall(BotMethod(call.handler),
                                                        raised))
                                 ELSE @]
    /\ UNCHANGED <<exchange, cache>>

BackToMenu ==
    /\ IsMenu
    /\ call.pc = "done"
    /\ call' = Idle
    /\ UNCHANGED <<exchange, cache>>

NextMenu ==
    \/ \E h \in Handlers, raised \in BOOLEAN : Select(h, raised)
    \/ /\ IsMenu
       /\ \E typed \in Typed : AnswerOption(typed)
    \/ /\ IsMenu
       /\ \E typed \in Typed, raised \in BOOLEAN : AnswerConfirm(typed, raised)
    \/ BackToMenu

SpecMenu == Init /\ [][NextMenu]_vars

(***************************************************************************)
(* What a validator call applied: the first filter of its type in the      *)
(* symbol record the lookup gave, as [min, max, step].                     *)
(***************************************************************************)
\* kind is "quantity" (LOT_SIZE) or "price" (PRICE_FILTER)
KindType(kind) == IF kind = "quantity" THEN "LOT_SIZE" ELSE "PRICE_FILTER"

KindKeys(kind) ==
    IF kind = "quantity" THEN {"minQty", "maxQty", "stepSize"}
    ELSE {"minPrice", "maxPrice", "tickSize"}

\* the filters the scan passes without raising, up to the first of the type
Scanned(info, kind) ==
    {i \in 1..Len(info.filters) :
        /\ \A j \in 1..i : "filterType" \in DOMAIN info.filters[j]
        /\ \A j \in 1..(i - 1) : info.filters[j].filterType # KindType(kind)}

RuleIndexes(info, kind) ==
    {i \in Scanned(info, kind) :
        /\ info.filters[i].filterType = KindType(kind)
        /\ KindKeys(kind) \subseteq DOMAIN info.filters[i]}

\* the lookup gave a record and the scan reached a complete filter of the type
HasRule(lookup, info, kind) == lookup = "return" /\ RuleIndexes(info, kind) # {}

RuleOf(info, kind) ==
    LET f == info.filters[CHOOSE i \in RuleIndexes(info, kind) : TRUE]
    IN  IF kind = "quantity"
        THEN [min |-> f.minQty, max |-> f.maxQty, step |-> f.stepSize]
        ELSE [min |-> f.minPrice, max |-> f.maxPrice, step |-> f.tickSize]

IsValidatorCall == call.op \in {"_validate_quantity", "_validate_price"}

CallKind == IF call.op = "_validate_quantity" THEN "quantity" ELSE "price"

FilterApplied == IsValidatorCall /\ HasRule(call.lookup, call.info, CallKind)

AppliedRule == RuleOf(call.info, CallKind)

\* min <= value <= max, as the filter states it
WithinMinMax == AppliedRule.min <= call.raw /\ call.raw <= AppliedRule.max

\* within the bounds the validator enforces: a maxPrice of 0 is no bound
InBounds ==
    /\ AppliedRule.min <= call.raw
    /\ \/ call.raw <= AppliedRule.max
       \/ call.op = "_validate_price" /\ AppliedRule.max = 0

\* the largest multiple of step that is <= value (value >= 0, step > 0)
SnapDown(value, step) == (value \div step) * step

(***************************************************************************)
(* C1: for every filter with step > 0 and every value with                 *)
(* min <= value <= max, the validators return is_valid = TRUE and an       *)
(* adjusted value that is an integer multiple of the step, whatever the    *)
(* step.  The code fails this for steps that are not 10^-k with k >= 1.    *)
(***************************************************************************)
C1_AdjustedIsStepMultiple ==
    (FilterApplied /\ AppliedRule.step > 0 /\ WithinMinMax)
        => /\ call.verdict.is_valid
           /\ call.verdict.value % AppliedRule.step = 0

(***************************************************************************)
(* C2: for every in-bounds value the adjusted value is rounded down:       *)
(* adjusted <= value and value - adjusted < step.                          *)
(***************************************************************************)
C2_RoundsDown ==
    (FilterApplied /\ AppliedRule.step > 0 /\ InBounds)
        => /\ call.verdict.is_valid
           /\ call.verdict.value <= call.raw
           /\ call.raw - call.verdict.value < AppliedRule.step

\* the worked example: lot size 0.001 / 1000 / 0.001, quantity 0.0019 -> 0.001
C2_Witness ==
    /\ FilterApplied
    /\ call.op = "_validate_quantity"
    /\ AppliedRule = [min |-> D(1, 3), max |-> D(1000, 0), step |-> D(1, 3)]
    /\ call.raw = D(19, 4)
    /\ call.verdict = Verdict(TRUE, "Valid", D(1, 3))

(***************************************************************************)
(* C4: a value below the minimum, or above a maximum > 0, is rejected      *)
(* (is_valid = FALSE) and returned unchanged, with no rounding.            *)
(***************************************************************************)
C4_OutOfBoundsRejectedUnchanged ==
    (/\ FilterApplied
     /\ \/ call.raw < AppliedRule.min
        \/ AppliedRule.max > 0 /\ call.raw > AppliedRule.max)
        => /\ ~call.verdict.is_valid
           /\ call.verdict.value = call.raw

\* a quantity above the maximum that is not on the step grid comes back as is
C4_Witness ==
    /\ FilterApplied
    /\ call.op = "_validate_quantity"
    /\ AppliedRule.max > 0
    /\ call.raw > AppliedRule.max
    /\ AppliedRule.step > 0
    /\ call.raw % AppliedRule.step # 0
    /\ call.verdict = Verdict(FALSE, "Quantity above maximum", call.raw)

(***************************************************************************)
(* C5: with maxPrice = 0, _validate_price accepts every price >= minPrice  *)
(* and returns the price truncated to the tick grid (the largest multiple  *)
(* of tickSize not above the price).  The acceptance holds; the returned   *)
(* value is off the tick grid for the ticks of C1.                         *)
(***************************************************************************)
C5_MaxZeroAcceptsTickTruncated ==
    (/\ FilterApplied
     /\ call.op = "_validate_price"
     /\ AppliedRule.max = 0
     /\ AppliedRule.step > 0
     /\ call.raw >= AppliedRule.min)
        => /\ call.verdict.is_valid
           /\ call.verdict.value = SnapDown(call.raw, AppliedRule.step)

(***************************************************************************)
(* C6: normalization is idempotent on aligned input: an in-bounds value    *)
(* that is a multiple of the step is accepted and returned as is.          *)
(***************************************************************************)
C6_AlignedUnchanged ==
    (/\ FilterApplied
     /\ AppliedRule.step > 0
     /\ InBounds
     /\ call.raw % AppliedRule.step = 0)
        => call.verdict = Verdict(TRUE, "Valid", call.raw)

\* an aligned value on a grid that is not a power of ten: 0.5 on step 0.25
C6_Witness ==
    /\ FilterApplied
    /\ AppliedRule.step = D(25, 2)
    /\ call.raw = D(5, 1)
    /\ InBounds
    /\ call.verdict = Verdict(TRUE, "Valid", D(5, 1))

(***************************************************************************)
(* What a place_* call did.                                                *)
(***************************************************************************)
IsPlaceCall == call.op \in PlaceOps

CreateCalls ==
    {i \in 1..Len(call.remote) : call.remote[i].api = "futures_create_order"}

Requests == {call.remote[i].request : i \in CreateCalls}

FailedChecks == {i \in 1..Len(call.checks) : ~call.checks[i].verdict.is_valid}

\* the check of this call that produced a field of the request
CheckOf(field) ==
    LET name == IF field = "stopPrice" THEN "stop_price" ELSE field
    IN  {i \in 1..Len(call.checks) : call.checks[i].field = name}

FieldKind(field) == IF field = "quantity" THEN "quantity" ELSE "price"

\* value is within the rule's bounds and on its step grid
Conforms(value, rule, kind) ==
    /\ rule.min <= value
    /\ value <= rule.max \/ (kind = "price" /\ rule.max = 0)
    /\ rule.step > 0 => value % rule.step = 0

(***************************************************************************)
(* C3: every request passed to futures_create_order has its quantity,      *)
(* price and stopPrice bounds-checked against the symbol's filters and     *)
(* step-aligned, whatever the calls, cache states and lookup outcomes.     *)
(* The code lets raw values through when the lookup fails or the filter    *)
(* is missing, and values off the step grid for the steps of C1.           *)
(***************************************************************************)
C3_RequestsAreValidated ==
    IsPlaceCall =>
        \A request \in Requests :
            \A field \in {"quantity", "price", "stopPrice"} \cap DOMAIN request :
                \E i \in CheckOf(field) :
                    LET c == call.checks[i]
                    IN  /\ HasRule(c.lookup, c.info, FieldKind(field))
                        /\ Conforms(request[field], RuleOf(c.info, FieldKind(field)),
                                    FieldKind(field))

(***************************************************************************)
(* C7: in every place_* method, when the validation of a quantity or price *)
(* field fails, the call raises ValueError with the validation message and *)
(* futures_create_order is not called during that call.                    *)
(***************************************************************************)
C7_InvalidRaisesAndNeverSubmits ==
    (IsPlaceCall /\ FailedChecks # {})
        => /\ call.outcome = "ValueError"
           /\ \E i \in FailedChecks : call.error = call.checks[i].verdict.message
           /\ CreateCalls = {}

\* take-profit with a limit price that fails after quantity and trigger passed
C7_Witness ==
    /\ call.op = "place_take_profit_order"
    /\ Len(call.checks) = 3
    /\ FailedChecks = {3}
    /\ call.checks[3].field = "price"
    /\ call.outcome = "ValueError"
    /\ call.error = "Price below minimum"

(***************************************************************************)
(* C8 as stated: a local validation failure (a bounds violation in a       *)
(* place_* call, an out-of-range leverage) is raised before any remote     *)
(* call of that facade call, the symbol-metadata fetch included.           *)
(***************************************************************************)
C8_RaisedBeforeAnyRemoteCall ==
    (call.op \in PlaceOps \cup {"set_leverage"} /\ call.outcome = "ValueError")
        => call.remote = <<>>

(***************************************************************************)
(* C8 amended: a bounds violation in a place_* call is raised before any   *)
(* futures_create_order; the only remote calls that precede it are the     *)
(* futures_exchange_info fetches of the validators run so far, at most one *)
(* per validator and none when the symbol was cached; the call stops at    *)
(* the first failing validator.  An out-of-range leverage is raised before *)
(* any remote call.                                                        *)
(***************************************************************************)
C8_RaisedBeforeAnySubmission ==
    /\ (IsPlaceCall /\ call.outcome = "ValueError")
        => /\ \A i \in 1..Len(call.remote) :
                  call.remote[i].api = "futures_exchange_info"
           /\ Len(call.remote) <= Len(call.checks)
           /\ call.cached => call.remote = <<>>
           /\ FailedChecks = {Len(call.checks)}
    /\ (call.op = "set_leverage" /\ call.outcome = "ValueError")
        => call.remote = <<>>

\* the bounds violation comes after two metadata fetches: the first failed
\* (quantity passed unvalidated), the second answered
C8_Witness ==
    /\ IsPlaceCall
    /\ call.outcome = "ValueError"
    /\ ~call.cached
    /\ call.remote = <<Logged(ExchangeInfoCall, "BinanceAPIException"),
                       Logged(ExchangeInfoCall, "")>>
    /\ FailedChecks = {2}

(***************************************************************************)
(* C9: place_take_profit_order with a limit price supplied (any number,    *)
(* i.e. not None) never submits TAKE_PROFIT_MARKET: it fails validation or *)
(* submits type TAKE_PROFIT with timeInForce GTC and the validated,        *)
(* tick-adjusted price.  The code takes a price of 0 for an omitted one.   *)
(***************************************************************************)
C9_LimitPriceGivesTakeProfitLimit ==
    (call.op = "place_take_profit_order" /\ call.args.price # <<>>)
        => /\ call.outcome = "ValueError" \/ Requests # {}
           /\ \A request \in Requests :
                  /\ request.type = "TAKE_PROFIT"
                  /\ {"price", "timeInForce"} \subseteq DOMAIN request
                  /\ request.timeInForce = "GTC"
                  /\ \E i \in CheckOf("price") :
                         request.price = call.checks[i].verdict.value

(***************************************************************************)
(* C10: place_take_profit_order with the limit price omitted submits a     *)
(* request of type TAKE_PROFIT_MARKET whose fields are exactly symbol,     *)
(* side, type, quantity, stopPrice and reduceOnly (no price, no            *)
(* timeInForce); nothing is submitted only when a validation fails.        *)
(***************************************************************************)
C10_OmittedPriceGivesTakeProfitMarket ==
    (call.op = "place_take_profit_order" /\ call.args.price = <<>>)
        => /\ call.outcome # "ValueError" => Cardinality(CreateCalls) = 1
           /\ \A request \in Requests :
                  /\ request.type = "TAKE_PROFIT_MARKET"
                  /\ DOMAIN request =
                         {"symbol", "side", "type", "quantity", "stopPrice", "reduceOnly"}
                  /\ request.symbol = call.symbol
                  /\ request.side = call.args.side
                  /\ request.quantity = call.checks[1].verdict.value
                  /\ request.stopPrice = call.checks[2].verdict.value

C10_Witness ==
    /\ call.op = "place_take_profit_order"
    /\ call.args.price = <<>>
    /\ call.outcome = "return"
    /\ \E request \in Requests :
           /\ request.type = "TAKE_PROFIT_MARKET"
           /\ request.stopPrice = D(1234, 1)
           /\ call.args.stop_price = D(123456, 3)

(***************************************************************************)
(* C11: set_leverage raises ValueError without any remote call when the    *)
(* leverage is below 1 or above 125; for a leverage from 1 to 125, both    *)
(* ends included, it makes exactly one remote call, futures_change_leverage*)
(* with that symbol and leverage, and returns the exchange's answer when   *)
(* the exchange gives one.                                                 *)
(***************************************************************************)
C11_LeverageRange ==
    call.op = "set_leverage"
        => LET l == call.args.leverage
           IN  IF l < 1 \/ l > 125
               THEN /\ call.outcome = "ValueError"
                    /\ call.remote = <<>>
               ELSE /\ Len(call.remote) = 1
                    /\ call.remote[1].api = "futures_change_leverage"
                    /\ call.remote[1].symbol = call.symbol
                    /\ call.remote[1].leverage = l
                    /\ call.remote[1].raised = ""
                        => /\ call.outcome = "return"
                           /\ call.result = <<LeverageAnswer(call.symbol, l)>>

\* the lowest admissible leverage was sent and the answer returned
C11_Witness ==
    /\ call.op = "set_leverage"
    /\ call.args.leverage = 1
    /\ call.outcome = "return"
    /\ call.result = <<LeverageAnswer(call.symbol, 1)>>

(***************************************************************************)
(* The symbol lookups of a call: how each ended and the record it gave.    *)
(***************************************************************************)
IsLookupCall == call.op = "get_symbol_info" \/ IsPlaceCall

Lookups ==
    IF call.op = "get_symbol_info" THEN {<<call.outcome, call.info>>}
    ELSE {<<call.checks[i].lookup, call.checks[i].info>> : i \in 1..Len(call.checks)}

FetchCalls ==
    {i \in 1..Len(call.remote) : call.remote[i].api = "futures_exchange_info"}

\* a lookup that succeeded leaves the record it returned in the cache
StoredAfterSuccess ==
    (IsLookupCall /\ \E l \in Lookups : l[1] = "return")
        => /\ call.symbol \in DOMAIN cache
           /\ \A l \in Lookups : l[1] = "return" => l[2] = cache[call.symbol]

\* with the symbol in the cache, every lookup of the call returns the stored
\* record and the call makes no futures_exchange_info call
CachedLookupsStayLocal ==
    (IsLookupCall /\ call.cached)
        => /\ FetchCalls = {}
           /\ call.symbol \in DOMAIN cache
           /\ Lookups = {<<"return", cache[call.symbol]>>}

\* an entry of the cache stays, with the record it was stored with
EntriesStay == \A s \in DOMAIN cache : s \in DOMAIN cache' /\ cache'[s] = cache[s]

(***************************************************************************)
(* C12 as stated: after one successful get_symbol_info(S), every later     *)
(* lookup of S, the implicit ones of the validators included, returns the  *)
(* stored record without a futures_exchange_info call, and the metadata    *)
(* fetch happens at most once per symbol the exchange knows: a call that   *)
(* fetches for a listed symbol fetches once and leaves the symbol cached.  *)
(***************************************************************************)
C12_FetchedAtMostOnce ==
    /\ [](/\ StoredAfterSuccess
          /\ CachedLookupsStayLocal
          /\ (IsLookupCall /\ call.symbol \in DOMAIN exchange /\ FetchCalls # {})
               => /\ Cardinality(FetchCalls) = 1
                  /\ call.symbol \in DOMAIN cache)
    /\ [][EntriesStay]_vars

(***************************************************************************)
(* C12 amended: after one successful lookup of S, every later lookup of S  *)
(* returns the stored record without a futures_exchange_info call, and a   *)
(* fetch the exchange answers happens at most once per symbol the exchange *)
(* knows: it is made with the symbol not cached, is the last fetch of the  *)
(* call, and leaves the exchange's record in the cache.  (A fetch that     *)
(* raises stores nothing and is repeated by the next lookup.)              *)
(***************************************************************************)
C12_AnsweredFetchAtMostOnce ==
    /\ [](/\ StoredAfterSuccess
          /\ CachedLookupsStayLocal
          /\ (IsLookupCall /\ call.symbol \in DOMAIN exchange)
               => \A i \in FetchCalls \cap Answered(call.remote) :
                     /\ ~call.cached
                     /\ \A j \in FetchCalls : j <= i
                     /\ call.symbol \in DOMAIN cache
                     /\ cache[call.symbol] = exchange[call.symbol])
    /\ [][EntriesStay]_vars

\* a stop-limit call on a cached symbol: three lookups, no fetch, and the
\* record used is the stored one although the exchange has changed it since
C12_Witness ==
    /\ call.op = "place_stop_limit_order"
    /\ call.cached
    /\ Len(call.checks) = 3
    /\ FetchCalls = {}
    /\ cache[call.symbol] # exchange[call.symbol]
    /\ \A i \in 1..3 : call.checks[i].info = cache[call.symbol]

(***************************************************************************)
(* C13: get_symbol_info(S) for a symbol S the exchange does not list fails *)
(* with ValueError "Symbol S not found" once the exchange has answered,    *)
(* and leaves the cache as it was: no entry for S is stored, so that every *)
(* lookup of S, a later one included, fetches again.                       *)
(***************************************************************************)
C13_UnlistedFailsAndIsNotCached ==
    /\ []((call.op = "get_symbol_info" /\ call.symbol \notin DOMAIN exchange)
            => /\ ~call.cached
               /\ Cardinality(FetchCalls) = 1
               /\ call.symbol \notin DOMAIN cache
               /\ call.outcome # "return"
               /\ Answered(call.remote) # {}
                    => /\ call.outcome = "ValueError"
                       /\ call.error = <<"Symbol", call.symbol, "not found">>)
    /\ [][(call'.op = "get_symbol_info" /\ call'.symbol \notin DOMAIN exchange')
            => cache' = cache]_vars

\* the lookup of an unlisted symbol has failed on a bot whose cache holds
\* a record of another symbol
C13_Witness ==
    /\ call.op = "get_symbol_info"
    /\ call.symbol \notin DOMAIN exchange
    /\ call.outcome = "ValueError"
    /\ call.error = <<"Symbol", "NOPEUSDT", "not found">>
    /\ DOMAIN cache = {"BTCUSDT"}

(***************************************************************************)
(* What _format_order_response was given.                                  *)
(***************************************************************************)
IsFormatCall == call.op = "_format_order_response"

\* the raw keys read with float(), and the result field of each
ResultField(key) ==
    CASE key = "price" -> "price"
      [] key = "origQty" -> "quantity"
      [] key = "executedQty" -> "executed_qty"
      [] key = "avgPrice" -> "avg_price"

NumericKeys == {"price", "origQty", "executedQty", "avgPrice"}

\* zero, as a number or as a text of one
ZeroValues == {Num(0), Str("0"), Str("0.00")}

(***************************************************************************)
(* C14: _format_order_response returns stop_price = None for every raw     *)
(* record whose stopPrice is absent or zero in whatever representation     *)
(* (the number 0, the text "0", the text "0.00"), and a number only when   *)
(* the raw stopPrice is not zero.                                          *)
(***************************************************************************)
C14_ZeroStopPriceIsNone ==
    (IsFormatCall /\ call.outcome = "return")
        => /\ ("stopPrice" \notin DOMAIN call.order \/ call.order.stopPrice \in ZeroValues)
                => call.result.stop_price = <<>>
           /\ call.result.stop_price # <<>>
                => /\ "stopPrice" \in DOMAIN call.order
                   /\ call.order.stopPrice \notin ZeroValues

(***************************************************************************)
(* C15: _format_order_response is total on records with missing keys: a    *)
(* missing price, origQty, executedQty or avgPrice gives 0 in the result   *)
(* field, a missing reduceOnly or closePosition gives false, and no error  *)
(* is raised for the keys that are missing.                                *)
(***************************************************************************)
C15_MissingFieldsDefault ==
    IsFormatCall
        => /\ (\A k \in (NumericKeys \cup {"stopPrice"}) \cap DOMAIN call.order :
                  call.order[k] # Str(""))
                => call.outcome = "return"
           /\ call.outcome = "return"
                => /\ \A k \in NumericKeys \ DOMAIN call.order :
                          call.result[ResultField(k)] = 0
                   /\ "reduceOnly" \notin DOMAIN call.order
                        => call.result.reduce_only = FALSE
                   /\ "closePosition" \notin DOMAIN call.order
                        => call.result.close_position = FALSE

\* a record with none of the numeric keys and none of the flags
C15_Witness ==
    /\ IsFormatCall
    /\ (NumericKeys \cup {"stopPrice", "reduceOnly", "closePosition"})
           \cap DOMAIN call.order = {}
    /\ call.outcome = "return"
    /\ call.result.price = 0
    /\ call.result.avg_price = 0
    /\ call.result.reduce_only = FALSE

(***************************************************************************)
(* What get_positions was given: the raw positions it has to report, by    *)
(* their index in the exchange's list.                                     *)
(***************************************************************************)
IsPositionsCall == call.op = "get_positions" /\ call.outcome = "return"

\* the amounts the exchange sends that are not zero, and their numbers
AmountOf(text) == CASE text = "-0.5" -> -D(5, 1) [] text = "1.5" -> D(15, 1)

Reported ==
    {i \in 1..Len(call.args.positions) :
        /\ call.args.positions[i].positionAmt.str \in {"-0.5", "1.5"}
        /\ call.args.symbol # <<>>
             => call.args.positions[i].symbol = call.args.symbol[1]}

\* the place in the result of the raw position at index i
Rank(i) == Cardinality({j \in Reported : j <= i})

(***************************************************************************)
(* C16: get_positions returns exactly the raw positions whose positionAmt  *)
(* is not zero and, when a symbol is given, whose symbol equals it, in the *)
(* exchange's order: a position with positionAmt "0" is left out, one with *)
(* "-0.5" is reported with position_amount = -0.5.                         *)
(***************************************************************************)
C16_ActivePositionsInOrder ==
    IsPositionsCall
        => /\ Len(call.result[1]) = Cardinality(Reported)
           /\ \A i \in Reported :
                 /\ call.result[1][Rank(i)].symbol = call.args.positions[i].symbol
                 /\ call.result[1][Rank(i)].position_amount
                        = AmountOf(call.args.positions[i].positionAmt.str)

\* of a flat and a short position of the symbol asked for, in this order,
\* the short one is reported alone
C16_Witness ==
    /\ IsPositionsCall
    /\ call.args.symbol = <<"BTCUSDT">>
    /\ Len(call.args.positions) = 2
    /\ call.args.positions[1] = RawPosition("BTCUSDT", "0")
    /\ call.args.positions[2] = RawPosition("BTCUSDT", "-0.5")
    /\ Len(call.result[1]) = 1
    /\ call.result[1][1].position_amount = -D(5, 1)

(***************************************************************************)
(* C17: when reduce_only is not passed, the request of place_market_order, *)
(* place_limit_order, place_stop_limit_order and place_stop_market_order   *)
(* carries reduceOnly = false and the request of place_take_profit_order   *)
(* carries reduceOnly = true; a reduce_only that is passed is forwarded    *)
(* unchanged.                                                              *)
(***************************************************************************)
C17_ReduceOnlyDefaults ==
    IsPlaceCall
        => \A r \in Requests :
              r.reduceOnly = IF call.args.reduce_only # <<>> THEN call.args.reduce_only[1]
                             ELSE call.op = "place_take_profit_order"

\* a take-profit order placed without reduce_only was sent as reduce-only
C17_Witness ==
    /\ call.op = "place_take_profit_order"
    /\ call.args.reduce_only = <<>>
    /\ Requests # {}
    /\ \A r \in Requests : r.reduceOnly = TRUE

(***************************************************************************)
(* C19: a place_* call whose validation succeeds calls                     *)
(* futures_create_order exactly once, as its last remote call and with the *)
(* request of that call, whether the exchange accepts or rejects it: a     *)
(* rejection reaches the caller and the order is not submitted again.      *)
(***************************************************************************)
C19_SubmittedExactlyOnce ==
    (IsPlaceCall /\ FailedChecks = {})
        => /\ CreateCalls = {Len(call.remote)}
           /\ \A i \in CreateCalls :
                 /\ call.remote[i].request.symbol = call.symbol
                 /\ call.remote[i].request.side = call.args.side
                 /\ call.remote[i].raised = "" => call.outcome = "return"
                 /\ call.remote[i].raised # ""
                      => /\ call.outcome = call.remote[i].raised
                         /\ call.result = <<>>

\* the exchange has rejected the only submission of a limit order
C19_Witness ==
    /\ call.op = "place_limit_order"
    /\ FailedChecks = {}
    /\ call.outcome = "BinanceOrderException"
    /\ Cardinality(CreateCalls) = 1
    /\ call.remote[Len(call.remote)].raised = "BinanceOrderException"

(***************************************************************************)
(* C20: each place_* call submits the type tag and the field set of its    *)
(* own variant, with quantity and prices equal to the adjusted values the  *)
(* validators returned: MARKET with symbol, side, type, quantity and       *)
(* reduceOnly; LIMIT with price and timeInForce besides; STOP (stop-limit) *)
(* with price, stopPrice and timeInForce besides; STOP_MARKET with         *)
(* stopPrice besides.                                                      *)
(***************************************************************************)
MarketFields == {"symbol", "side", "type", "quantity", "reduceOnly"}

VariantOf(op) ==
    CASE op = "place_market_order" -> [type |-> "MARKET", fields |-> MarketFields]
      [] op = "place_limit_order"
           -> [type |-> "LIMIT", fields |-> MarketFields \cup {"price", "timeInForce"}]
      [] op = "place_stop_limit_order"
           -> [type |-> "STOP",
               fields |-> MarketFields \cup {"price", "stopPrice", "timeInForce"}]
      [] op = "place_stop_market_order"
           -> [type |-> "STOP_MARKET", fields |-> MarketFields \cup {"stopPrice"}]

C20_RequestOfItsVariant ==
    (IsPlaceCall /\ call.op # "place_take_profit_order")
        => \A r \in Requests :
              /\ r.type = VariantOf(call.op).type
              /\ DOMAIN r = VariantOf(call.op).fields
              /\ r.symbol = call.symbol
              /\ r.side = call.args.side
              /\ \A f \in {"quantity", "price", "stopPrice"} \cap DOMAIN r :
                    /\ CheckOf(f) # {}
                    /\ \A i \in CheckOf(f) : r[f] = call.checks[i].verdict.value

\* a stop-limit order went out with a quantity and a price that validation
\* had adjusted
C20_Witness ==
    /\ call.op = "place_stop_limit_order"
    /\ call.outcome = "return"
    /\ \E r \in Requests :
          /\ r.type = "STOP"
          /\ r.quantity # call.args.quantity
          /\ r.price # call.args.price

(***************************************************************************)
(* The remote calls of a call that the client answered with an exception.  *)
(***************************************************************************)
FailedCalls == {i \in 1..Len(call.remote) : call.remote[i].raised # ""}

\* a metadata fetch made by a validator inside a place_* call
IsValidatorFetch(i) == IsPlaceCall /\ call.remote[i].api = "futures_exchange_info"

(***************************************************************************)
(* C18 as stated: every failure the exchange client raises during a facade *)
(* operation, the symbol-metadata lookup during order validation included, *)
(* reaches the caller as that same error: no operation returns normally    *)
(* after a remote call it made has failed.                                 *)
(***************************************************************************)
C18_EveryRemoteFailureReachesCaller ==
    call # Idle
        => \A i \in FailedCalls : call.outcome = call.remote[i].raised

(***************************************************************************)
(* C18 amended: every failure the exchange client raises during a facade   *)
(* operation ends the operation at that call and reaches the caller as     *)
(* that same error, except a failure of the metadata fetch a validator     *)
(* makes inside a place_* call: that validator accepts the raw value with  *)
(* "Validation skipped" and the call goes on.                              *)
(***************************************************************************)
C18_RemoteFailureReachesCallerUnlessValidating ==
    call # Idle
        => \A i \in FailedCalls :
              IF IsValidatorFetch(i)
              THEN /\ i <= Len(call.checks)
                   /\ call.checks[i].lookup = call.remote[i].raised
                   /\ call.checks[i].verdict
                        = Verdict(TRUE, "Validation skipped", call.checks[i].raw)
                   /\ Len(call.remote) > i
              ELSE /\ call.outcome = call.remote[i].raised
                   /\ i = Len(call.remote)

\* a place_* call whose metadata fetch failed and whose submission was then
\* rejected: the caller gets the rejection
C18_Witness ==
    /\ IsPlaceCall
    /\ Len(call.remote) = 2
    /\ IsValidatorFetch(1)
    /\ FailedCalls = {1, 2}
    /\ call.outcome = "BinanceOrderException"

(***************************************************************************)
(* The verdict _validate_price gives for a value on its own, with the      *)
(* symbol record the check worked on.                                      *)
(***************************************************************************)
PriceChecks == {i \in 1..Len(call.checks) : call.checks[i].field # "quantity"}

OwnVerdict(check) ==
    IF check.lookup # "return" THEN Verdict(TRUE, "Validation skipped", check.raw)
    ELSE _validate_price([cache |-> (call.symbol :> check.info), remote |-> <<>>,
                          net |-> NoNet],
                         exchange, call.symbol, check.raw).verdict

\* the fields a method validates, in the order of its validator calls
FieldsOf(op) ==
    IF op = "place_stop_limit_order" THEN <<"quantity", "price", "stop_price">>
    ELSE <<"quantity", "stop_price">>

(***************************************************************************)
(* C21: in place_stop_limit_order the execution price and the trigger      *)
(* stop_price are each validated against the PRICE_FILTER on their own     *)
(* (verdict and adjusted value of one are those of its own raw value,      *)
(* whatever the other is), in place_stop_market_order the stop_price is    *)
(* validated, and if either price fails the call raises ValueError and     *)
(* nothing is submitted.                                                   *)
(***************************************************************************)
C21_PricesValidatedOnTheirOwn ==
    call.op \in {"place_stop_limit_order", "place_stop_market_order"}
        => /\ \A i \in 1..Len(call.checks) :
                 /\ call.checks[i].field = FieldsOf(call.op)[i]
                 /\ call.checks[i].raw = call.args[FieldsOf(call.op)[i]]
           /\ \A i \in PriceChecks : call.checks[i].verdict = OwnVerdict(call.checks[i])
           /\ FailedChecks = {}
                => /\ Len(call.checks) = Len(FieldsOf(call.op))
                   /\ \A r \in Requests :
                         /\ r.stopPrice = call.checks[Len(call.checks)].verdict.value
                         /\ "price" \in DOMAIN r
                              => r.price = call.checks[2].verdict.value
           /\ FailedChecks # {}
                => /\ call.outcome = "ValueError"
                   /\ CreateCalls = {}

\* a stop-limit call whose execution price passed, adjusted, and whose
\* trigger price then failed its bounds
C21_Witness ==
    /\ call.op = "place_stop_limit_order"
    /\ Len(call.checks) = 3
    /\ call.checks[2].verdict.is_valid
    /\ call.checks[2].verdict.value # call.args.price
    /\ FailedChecks = {3}
    /\ call.outcome = "ValueError"
    /\ CreateCalls = {}

(***************************************************************************)
(* C22: when the symbol's metadata contains no LOT_SIZE filter,            *)
(* _validate_quantity returns is_valid = TRUE, an explanatory message and  *)
(* the raw quantity unchanged, and when it contains no PRICE_FILTER,       *)
(* _validate_price does the same for the raw price: no bounds check and no *)
(* rounding is applied.                                                    *)
(***************************************************************************)
LacksFilter ==
    /\ IsValidatorCall
    /\ call.lookup = "return"
    /\ \A i \in 1..Len(call.info.filters) :
          /\ "filterType" \in DOMAIN call.info.filters[i]
          /\ call.info.filters[i].filterType # KindType(CallKind)

C22_NoFilterPassesRaw ==
    LacksFilter
        => /\ call.verdict.is_valid
           /\ call.verdict.value = call.raw
           /\ call.verdict.message
                = IF call.op = "_validate_quantity" THEN "No LOT_SIZE filter found"
                  ELSE "No PRICE_FILTER found"

\* a quantity that is negative and off every grid passes a record whose
\* filters are of other types
C22_Witness ==
    /\ LacksFilter
    /\ call.op = "_validate_quantity"
    /\ Len(call.info.filters) = 2
    /\ call.raw = -D(5, 1)
    /\ call.verdict = Verdict(TRUE, "No LOT_SIZE filter found", -D(5, 1))

(***************************************************************************)
(* The checks of a place_* call in which the validator met an error: the   *)
(* lookup failed or did not find the symbol, or the scan of the filters    *)
(* came to a filter without filterType or to the filter of its type with   *)
(* a key missing.                                                          *)
(***************************************************************************)
\* where the scan for a filter of the kind stops
ScanStops(info, kind) ==
    {i \in 1..Len(info.filters) :
        /\ \A j \in 1..(i - 1) :
              /\ "filterType" \in DOMAIN info.filters[j]
              /\ info.filters[j].filterType # KindType(kind)
        /\ \/ "filterType" \notin DOMAIN info.filters[i]
           \/ info.filters[i].filterType = KindType(kind)}

Malformed(info, kind) ==
    \E i \in ScanStops(info, kind) :
        \/ "filterType" \notin DOMAIN info.filters[i]
        \/ ~(KindKeys(kind) \subseteq DOMAIN info.filters[i])

ErrorChecks ==
    {i \in 1..Len(call.checks) :
        \/ call.checks[i].lookup # "return"
        \/ Malformed(call.checks[i].info, FieldKind(call.checks[i].field))}

(***************************************************************************)
(* C23: any error raised while _validate_quantity / _validate_price obtain *)
(* or inspect the symbol's filters (malformed filter data, a failed or     *)
(* not-found symbol lookup) makes the validator return is_valid = TRUE     *)
(* with the raw value unchanged instead of raising, so that the place_*    *)
(* call goes on: to its next validator or, after the last, to the          *)
(* submission.                                                             *)
(***************************************************************************)
C23_ErrorsSkipValidation ==
    IsPlaceCall
        => /\ \A i \in ErrorChecks :
                 /\ call.checks[i].verdict
                      = Verdict(TRUE, "Validation skipped", call.checks[i].raw)
                 /\ i < Len(call.checks) \/ CreateCalls # {}
           /\ (ErrorChecks # {} /\ FailedChecks = {})
                => /\ CreateCalls # {}
                   /\ \A r \in Requests : \A f \in {"quantity", "price", "stopPrice"} :
                         (f \in DOMAIN r /\ CheckOf(f) \subseteq ErrorChecks)
                             => \A i \in CheckOf(f) : r[f] = call.checks[i].raw

\* a limit order for a symbol the exchange does not list has been submitted
\* with the raw quantity and price
C23_Witness ==
    /\ call.op = "place_limit_order"
    /\ call.symbol \notin DOMAIN exchange
    /\ ErrorChecks = {1, 2}
    /\ call.checks[1].lookup = "ValueError"
    /\ call.outcome = "return"
    /\ \A r \in Requests : r.quantity = call.args.quantity /\ r.price = call.args.price

(***************************************************************************)
(* C24: the symbol cache of one BasicBot is append-only: once it holds a   *)
(* record for a symbol, no step (lookups, order placement, cancels,        *)
(* leverage, failed calls, a change of the exchange's metadata) removes    *)
(* the entry or replaces it with a different record.                       *)
(***************************************************************************)
C24_CacheAppendOnly ==
    [][\A s \in DOMAIN cache :
          /\ s \in DOMAIN cache'
          /\ cache'[s] = cache[s]]_vars

\* both listed symbols are cached, one with a record the exchange has
\* replaced since, and a lookup has just returned that stored record
C24_Witness ==
    /\ call.op = "get_symbol_info"
    /\ DOMAIN cache = Listed
    /\ call.symbol \in Listed
    /\ call.info = cache[call.symbol]
    /\ cache[call.symbol] # exchange[call.symbol]

(***************************************************************************)
(* Two interleaved lookups of one symbol that both found no entry and both *)
(* returned.                                                               *)
(***************************************************************************)
BothMissedAndReturned ==
    /\ IsRace
    /\ \A t \in Callers :
          /\ call.callers[t].pc = "done"
          /\ call.callers[t].missed
          /\ call.callers[t].outcome = "return"

(***************************************************************************)
(* C25 as stated: when two get_symbol_info calls for the same uncached     *)
(* symbol interleave (both pass the membership test before either          *)
(* stores), under every interleaving both callers return the same record   *)
(* and the cache ends holding exactly that record, as after a sequential   *)
(* execution.                                                              *)
(***************************************************************************)
C25_RacingLookupsConverge ==
    BothMissedAndReturned
        => /\ call.callers[1].info = call.callers[2].info
           /\ call.symbol \in DOMAIN cache
           /\ cache[call.symbol] = call.callers[1].info

(***************************************************************************)
(* C25 amended: each of the two callers returns the record it fetched and  *)
(* the cache ends holding the record of the caller that stored last; the   *)
(* callers return the same record and the cache holds it, as after a       *)
(* sequential execution, when the exchange has not changed the symbol's    *)
(* metadata while they ran.                                                *)
(***************************************************************************)
C25_RacingLookupsConvergeIfUnchanged ==
    IsRace
        => /\ \A t \in Callers :
                 (call.callers[t].pc = "done" /\ call.callers[t].missed
                      /\ call.callers[t].outcome = "return")
                     => call.callers[t].info = call.callers[t].fetched
           /\ call.stored # <<>>
                => /\ call.symbol \in DOMAIN cache
                   /\ cache[call.symbol]
                        = call.callers[call.stored[Len(call.stored)]].fetched
           /\ (BothMissedAndReturned /\ ~call.changed)
                => /\ call.callers[1].info = call.callers[2].info
                   /\ cache[call.symbol] = call.callers[1].info
                   /\ cache[call.symbol] = exchange[call.symbol]

\* both callers missed, caller 2 stored first, and both returned the one
\* record the exchange holds
C25_Witness ==
    /\ BothMissedAndReturned
    /\ ~call.changed
    /\ call.stored = <<2, 1>>
    /\ call.callers[1].info = call.callers[2].info
    /\ cache[call.symbol] = exchange[call.symbol]

(***************************************************************************)
(* The remote calls of a facade call other than the metadata fetches.      *)
(***************************************************************************)
OwnCalls ==
    {i \in 1..Len(call.remote) : call.remote[i].api # "futures_exchange_info"}

OneCallOps ==
    {"get_account_info", "get_balance", "get_current_price", "cancel_order",
     "cancel_all_orders", "get_open_orders", "get_order_status", "get_positions"}

(***************************************************************************)
(* C26 as stated: every facade call makes exactly one remote call to the   *)
(* exchange client before it returns; each place_* call, for any cache     *)
(* state and any symbol, issues one remote call in total, and no facade    *)
(* call issues two or more.                                                *)
(***************************************************************************)
C26_ExactlyOneRemoteCall ==
    call # Idle => Len(call.remote) = 1

(***************************************************************************)
(* C26 amended: every facade call makes at most one remote call of its own *)
(* (futures_create_order, futures_change_leverage, ...), as its last one.  *)
(* A place_* call makes it exactly when no validator refuses, and before   *)
(* it one futures_exchange_info call for each validator that runs while    *)
(* the symbol is not cached, none when it is cached.  set_leverage makes   *)
(* its call exactly when the leverage is in range, get_symbol_info makes   *)
(* one fetch exactly when the symbol is not cached, and every other        *)
(* method makes exactly one remote call.                                   *)
(***************************************************************************)
C26_OneOwnCallAfterTheFetches ==
    call # Idle
        => /\ Cardinality(OwnCalls) <= 1
           /\ OwnCalls \subseteq {Len(call.remote)}
           /\ IsPlaceCall
                => /\ OwnCalls # {} <=> FailedChecks = {}
                   /\ Cardinality(FetchCalls) <= Len(call.checks)
                   /\ call.cached => FetchCalls = {}
                   /\ (~call.cached /\ Answered(call.remote) \cap FetchCalls = {})
                        => Cardinality(FetchCalls) = Len(call.checks)
           /\ call.op = "set_leverage"
                => Len(call.remote)
                     = IF call.args.leverage \in 1..125 THEN 1 ELSE 0
           /\ call.op = "get_symbol_info"
                => Len(call.remote) = IF call.cached THEN 0 ELSE 1
           /\ call.op \in OneCallOps => Len(call.remote) = 1

\* a stop-limit order went out as the fourth remote call of its call, after
\* three metadata fetches
C26_Witness ==
    /\ call.op = "place_stop_limit_order"
    /\ Len(call.remote) = 4
    /\ Cardinality(FetchCalls) = 3
    /\ OwnCalls = {4}
    /\ call.outcome = "return"

(***************************************************************************)
(* C27: for every filter and every value with min <= value <= max, the     *)
(* adjusted value a validator returns on success still satisfies           *)
(* min <= adjusted <= max: rounding down never gives a quantity or price   *)
(* below the filter's minimum.  The code does not look at the minimum      *)
(* again after rounding.                                                   *)
(***************************************************************************)
C27_AdjustedStaysWithinBounds ==
    (FilterApplied /\ WithinMinMax /\ call.verdict.is_valid)
        => /\ AppliedRule.min <= call.verdict.value
           /\ call.verdict.value <= AppliedRule.max

(***************************************************************************)
(* C28: in the menu, every order handler and both cancel handlers call     *)
(* their BasicBot method only after the user answered the confirmation     *)
(* question with yes, at most once; after an empty or negative answer the  *)
(* handler is done and has made no call that changes the exchange.         *)
(***************************************************************************)
Changing == {BotMethod(h) : h \in Handlers}

ChangingCalls ==
    {i \in 1..Len(call.called) : call.called[i].method \in Changing}

Said(typed) == lower[strip[typed]]

Confirmation == Said(call.confirm[Len(call.confirm)])

C28_MethodCalledOnlyAfterYes ==
    IsMenu =>
        /\ \A i \in ChangingCalls :
              call.called[i].method = BotMethod(call.handler)
        /\ Cardinality(ChangingCalls) <= 1
        /\ ChangingCalls # {} =>
              /\ call.confirm # <<>>
              /\ Confirmation \in {"y", "yes"}
        /\ (call.confirm # <<>> /\ Confirmation \in {"", "n", "no"}) =>
              /\ call.pc = "done"
              /\ ChangingCalls = {}

\* The take-profit handler showed the price, the user said yes to the limit
\* price, answered the confirmation with "ok" and then with " y ", and the
\* order was placed once.
C28_Witness ==
    /\ IsMenu
    /\ call.handler = "take_profit"
    /\ call.option = <<"YES">>
    /\ call.confirm = <<"ok", " y ">>
    /\ call.called = <<BotCall("get_current_price", FALSE),
                       BotCall("place_take_profit_order", FALSE)>>
    /\ call.pc = "done"

====
